---- MODULE Spec2Model ----
(***************************************************************************)
(* Model of csvtools.cleaning_ops.DataCleaner (src/csvtools/cleaning_ops.py) *)
(*                                                                         *)
(* A cell is Python text, modelled as a sequence of one-character strings. *)
(* A row is a Python list of cells.  Python lists are objects: the model   *)
(* keeps the row objects in `heap` (index = object identity) and every     *)
(* list of rows (self.rows, self.original_rows, the caller's list) as a    *)
(* sequence of identities, so that in-place cell assignment `row[j] = v`   *)
(* is seen through every list that holds the row.                          *)
(***************************************************************************)
EXTENDS Integers, Sequences, FiniteSets, TLC

----------------------------------------------------------------------------
(* Bounds of the model                                                     *)

MaxRows == 3
MaxCalls == 2

----------------------------------------------------------------------------
(* Text primitives (Python str methods and the `re` calls of the source)   *)

LowerLetters ==
    <<"a","b","c","d","e","f","g","h","i","j","k","l","m",
      "n","o","p","q","r","s","t","u","v","w","x","y","z">>

UpperLetters ==
    <<"A","B","C","D","E","F","G","H","I","J","K","L","M",
      "N","O","P","Q","R","S","T","U","V","W","X","Y","Z">>

Digits == <<"0","1","2","3","4","5","6","7","8","9">>

Range(s) == { s[i] : i \in DOMAIN s }

IndexOf(s, x) == CHOOSE i \in DOMAIN s : s[i] = x /\ \A k \in 1..(i-1) : s[k] # x

IsSpace(c) == c \in {" ", "\t"}

LowerSet == Range(LowerLetters)

UpperSet == Range(UpperLetters)

DigitSet == Range(Digits)

IsLower(c) == c \in LowerSet

IsUpper(c) == c \in UpperSet

IsDigit(c) == c \in DigitSet

CharUpper(c) == IF IsLower(c) THEN UpperLetters[IndexOf(LowerLetters, c)] ELSE c

CharLower(c) == IF IsUpper(c) THEN LowerLetters[IndexOf(UpperLetters, c)] ELSE c

DigitVal(c) == IndexOf(Digits, c) - 1

RECURSIVE LStrip(_)
LStrip(s) == IF s # <<>> /\ IsSpace(Head(s)) THEN LStrip(Tail(s)) ELSE s

RECURSIVE RStrip(_)
RStrip(s) ==
    IF s # <<>> /\ IsSpace(s[Len(s)]) THEN RStrip(SubSeq(s, 1, Len(s) - 1)) ELSE s

\* str.strip()
Strip(s) == RStrip(LStrip(s))

\* re.sub(r'\s+', ' ', s): every maximal run of whitespace becomes one space
RECURSIVE CollapseSpaces(_)
CollapseSpaces(s) ==
    IF s = <<>> THEN <<>>
    ELSE IF IsSpace(Head(s))
         THEN <<" ">> \o CollapseSpaces(LStrip(s))
         ELSE <<Head(s)>> \o CollapseSpaces(Tail(s))

\* str.upper()
Upper(s) == [i \in DOMAIN s |-> CharUpper(s[i])]

\* str.lower()
Lower(s) == [i \in DOMAIN s |-> CharLower(s[i])]

\* str.title(): a cased character is upper-cased when the character before
\* it is uncased (or it is the first), lower-cased otherwise
Title(s) ==
    [i \in DOMAIN s |->
        LET cased(c) == IsLower(c) \/ IsUpper(c)
            prevCased == i > 1 /\ cased(s[i-1])
        IN  IF prevCased THEN CharLower(s[i]) ELSE CharUpper(s[i])]

\* str.capitalize(): first character upper-cased, the rest lower-cased
Capitalize(s) ==
    [i \in DOMAIN s |-> IF i = 1 THEN CharUpper(s[i]) ELSE CharLower(s[i])]

\* s.split('. '): the pieces of s between non-overlapping occurrences of ". "
RECURSIVE SplitDotSpace(_, _)
SplitDotSpace(s, acc) ==
    IF s = <<>> THEN <<acc>>
    ELSE IF Len(s) >= 2 /\ s[1] = "." /\ s[2] = " "
         THEN <<acc>> \o SplitDotSpace(SubSeq(s, 3, Len(s)), <<>>)
         ELSE SplitDotSpace(Tail(s), Append(acc, Head(s)))

\* '. '.join(parts)
RECURSIVE JoinDotSpace(_)
JoinDotSpace(parts) ==
    IF Len(parts) = 1 THEN parts[1]
    ELSE parts[1] \o <<".", " ">> \o JoinDotSpace(Tail(parts))

\* '. '.join(s.capitalize() for s in original_value.split('. '))
Sentence(s) ==
    LET parts == SplitDotSpace(s, <<>>)
    IN  JoinDotSpace([k \in DOMAIN parts |-> Capitalize(parts[k])])

\* `not cell or cell.strip() == ''`
IsBlank(cell) == cell = <<>> \/ Strip(cell) = <<>>

----------------------------------------------------------------------------
(* Numbers: float(v), arithmetic on the parsed values, str(float)          *)
(* A parsed value is an exact fraction <<numerator, denominator>>.         *)

RECURSIVE Pow10(_)
Pow10(k) == IF k = 0 THEN 1 ELSE 10 * Pow10(k - 1)

RECURSIVE DigitsVal(_)
DigitsVal(s) == IF s = <<>> THEN 0 ELSE 10 * DigitsVal(SubSeq(s, 1, Len(s) - 1)) + DigitVal(s[Len(s)])

AllDigits(s) == \A i \in DOMAIN s : IsDigit(s[i])

RECURSIVE Gcd(_, _)
Gcd(a, b) == IF b = 0 THEN a ELSE Gcd(b, a % b)

Abs(n) == IF n < 0 THEN -n ELSE n

Reduce(q) ==
    LET g == Gcd(Abs(q[1]), q[2])
    IN  <<q[1] \div g, q[2] \div g>>

QAdd(a, b) == Reduce(<<a[1] * b[2] + b[1] * a[2], a[2] * b[2]>>)

QDivInt(a, n) == Reduce(<<a[1], a[2] * n>>)

QLeq(a, b) == a[1] * b[2] <= b[1] * a[2]

\* float(value) on the decimal literals of the model's alphabet: optional
\* surrounding whitespace, optional sign, digits with an optional point.
\* (Exponents, inf/nan and underscores are not in the cells of the model.)
FloatBody(s) ==
    LET unsigned == IF s # <<>> /\ s[1] \in {"+", "-"} THEN Tail(s) ELSE s
        dots == { i \in DOMAIN unsigned : unsigned[i] = "." }
        intPart == IF dots = {} THEN unsigned
                   ELSE SubSeq(unsigned, 1, (CHOOSE i \in dots : TRUE) - 1)
        fracPart == IF dots = {} THEN <<>>
                    ELSE SubSeq(unsigned, (CHOOSE i \in dots : TRUE) + 1, Len(unsigned))
    IN  [ok |-> /\ Cardinality(dots) <= 1
                /\ AllDigits(intPart) /\ AllDigits(fracPart)
                /\ Len(intPart) + Len(fracPart) >= 1,
         neg |-> s # <<>> /\ s[1] = "-",
         int |-> intPart,
         frac |-> fracPart]

\* DataCleaner._is_numeric
_is_numeric(value) == FloatBody(Strip(value)).ok

\* float(value), for a value with _is_numeric(value)
Float(value) ==
    LET b == FloatBody(Strip(value))
        n == DigitsVal(b.int \o b.frac)
    IN  Reduce(<<IF b.neg THEN -n ELSE n, Pow10(Len(b.frac))>>)

RECURSIVE OnlyTwoFive(_)
OnlyTwoFive(d) ==
    IF d = 1 THEN TRUE
    ELSE IF d % 2 = 0 THEN OnlyTwoFive(d \div 2)
    ELSE IF d % 5 = 0 THEN OnlyTwoFive(d \div 5)
    ELSE FALSE

\* The fractions whose str() the model renders: finite decimal expansion, so
\* that the shortest round-trip digits of the double are that expansion.
ExactDecimal(q) == OnlyTwoFive(Reduce(q)[2]) /\ Abs(q[1]) < 1000000

RECURSIVE FracDigitsCount(_, _)
FracDigitsCount(d, k) == IF Pow10(k) % d = 0 THEN k ELSE FracDigitsCount(d, k + 1)

RECURSIVE NatStr(_)
NatStr(n) == IF n < 10 THEN <<Digits[n + 1]>> ELSE NatStr(n \div 10) \o <<Digits[(n % 10) + 1]>>

RECURSIVE ZeroPad(_, _)
ZeroPad(s, width) == IF Len(s) >= width THEN s ELSE ZeroPad(<<"0">> \o s, width)

\* str(x) for a float x with ExactDecimal(x): "20.0", "27.5", "-5.0"
FloatStr(x) ==
    LET q == Reduce(x)
        k == FracDigitsCount(q[2], 0)
        a == Abs(q[1])
        whole == a \div q[2]
        frac == ((a % q[2]) * Pow10(k)) \div q[2]
    IN  (IF q[1] < 0 THEN <<"-">> ELSE <<>>)
        \o NatStr(whole) \o <<".">>
        \o (IF k = 0 THEN <<"0">> ELSE ZeroPad(NatStr(frac), k))

RECURSIVE QSum(_)
QSum(vs) == IF vs = <<>> THEN <<0, 1>> ELSE QAdd(vs[1], QSum(Tail(vs)))

RECURSIVE QInsert(_, _)
QInsert(sorted, v) ==
    IF sorted = <<>> THEN <<v>>
    ELSE IF QLeq(sorted[Len(sorted)], v) THEN Append(sorted, v)
    ELSE Append(QInsert(SubSeq(sorted, 1, Len(sorted) - 1), v), sorted[Len(sorted)])

\* list.sort() on floats
RECURSIVE QSort(_)
QSort(vs) == IF vs = <<>> THEN <<>> ELSE QInsert(QSort(SubSeq(vs, 1, Len(vs) - 1)), vs[Len(vs)])

\* sum(numeric_values) / len(numeric_values)
MeanOf(vs) == QDivInt(QSum(vs), Len(vs))

\* numeric_values[mid] if odd else (numeric_values[mid-1] + numeric_values[mid]) / 2
\* (Python indices are 0-based: mid = len // 2)
MedianOf(vs) ==
    LET s == QSort(vs)
        mid == Len(s) \div 2
    IN  IF Len(s) % 2 = 1 THEN s[mid + 1]
        ELSE QDivInt(QAdd(s[mid], s[mid + 1]), 2)

----------------------------------------------------------------------------
(* Dates: the four (regex, strptime format) pairs of normalize_dates       *)

\* layout of a pattern: separator and the order of its fields
date_patterns ==
    << [sep |-> "/", fields |-> <<"m", "d", "Y">>],    \* MM/DD/YYYY  %m/%d/%Y
       [sep |-> "-", fields |-> <<"m", "d", "Y">>],    \* MM-DD-YYYY  %m-%d-%Y
       [sep |-> "-", fields |-> <<"Y", "m", "d">>],    \* YYYY-MM-DD  %Y-%m-%d
       [sep |-> "/", fields |-> <<"m", "d", "y">>] >>  \* MM/DD/YY    %m/%d/%y

\* digit counts the regex of the pattern allows for a field: \d{1,2}, \d{4}, \d{2}
RegexWidths(f) == IF f = "Y" THEN {4} ELSE IF f = "y" THEN {2} ELSE {1, 2}

\* re.match(pattern, date_str): the pattern matches a PREFIX of the text
RECURSIVE RegexMatchFrom(_, _, _, _)
RegexMatchFrom(s, pos, fields, sep) ==
    IF fields = <<>> THEN TRUE
    ELSE \E w \in RegexWidths(Head(fields)) :
            /\ pos + w - 1 <= Len(s)
            /\ AllDigits(SubSeq(s, pos, pos + w - 1))
            /\ IF Len(fields) = 1 THEN TRUE
               ELSE /\ pos + w <= Len(s)
                    /\ s[pos + w] = sep
                    /\ RegexMatchFrom(s, pos + w + 1, Tail(fields), sep)

RegexMatch(s, pat) == RegexMatchFrom(s, 1, pat.fields, pat.sep)

\* the pieces of s between occurrences of the character sep
RECURSIVE SplitChar(_, _, _)
SplitChar(s, sep, acc) ==
    IF s = <<>> THEN <<acc>>
    ELSE IF Head(s) = sep THEN <<acc>> \o SplitChar(Tail(s), sep, <<>>)
    ELSE SplitChar(Tail(s), sep, Append(acc, Head(s)))

IsLeap(y) == y % 4 = 0 /\ (y % 100 # 0 \/ y % 400 = 0)

DaysInMonth(y, m) ==
    IF m = 2 THEN (IF IsLeap(y) THEN 29 ELSE 28)
    ELSE IF m \in {4, 6, 9, 11} THEN 30 ELSE 31

\* what a strptime directive accepts for a whole field of the text
\* (%d also accepts a space followed by one digit 1-9)
DirectiveOk(f, txt) ==
    IF f = "Y" THEN Len(txt) = 4 /\ AllDigits(txt)
    ELSE IF f = "y" THEN Len(txt) = 2 /\ AllDigits(txt)
    ELSE IF f = "m" THEN Len(txt) \in {1, 2} /\ AllDigits(txt) /\ DigitsVal(txt) \in 1..12
    ELSE \/ Len(txt) \in {1, 2} /\ AllDigits(txt) /\ DigitsVal(txt) \in 1..31
         \/ Len(txt) = 2 /\ txt[1] = " " /\ IsDigit(txt[2]) /\ txt[2] # "0"

\* datetime.strptime(date_str, format_str): the WHOLE text must fit the
\* format and name a real calendar day; two-digit years 69-99 are 19xx,
\* 00-68 are 20xx.  ok = FALSE stands for ValueError.
Strptime(s, pat) ==
    LET parts == SplitChar(s, pat.sep, <<>>)
        at(f) == parts[IndexOf(pat.fields, f)]
        shape == /\ Len(parts) = 3
                 /\ \A k \in 1..3 : DirectiveOk(pat.fields[k], parts[k])
        yf == IF "Y" \in Range(pat.fields) THEN "Y" ELSE "y"
        yv == DigitsVal(at(yf))
        year == IF yf = "Y" THEN yv ELSE IF yv <= 68 THEN 2000 + yv ELSE 1900 + yv
        month == DigitsVal(at("m"))
        day == DigitsVal(LStrip(at("d")))
    IN  IF shape /\ year >= 1 /\ day <= DaysInMonth(year, month)
        THEN [ok |-> TRUE, year |-> year, month |-> month, day |-> day]
        ELSE [ok |-> FALSE, year |-> 0, month |-> 0, day |-> 0]

\* parsed_date.strftime(...) for the target format
Strftime(d, target_format) ==
    LET Y == ZeroPad(NatStr(d.year), 4)
        m == ZeroPad(NatStr(d.month), 2)
        dd == ZeroPad(NatStr(d.day), 2)
    IN  IF target_format = "US" THEN m \o <<"/">> \o dd \o <<"/">> \o Y
        ELSE IF target_format = "EU" THEN dd \o <<"/">> \o m \o <<"/">> \o Y
        ELSE Y \o <<"-">> \o m \o <<"-">> \o dd

\* DataCleaner._normalize_date: first pattern whose regex matches and whose
\* strptime succeeds decides; otherwise the text is returned unchanged
RECURSIVE NormalizeFrom(_, _, _)
NormalizeFrom(date_str, k, target_format) ==
    IF k > Len(date_patterns) THEN date_str
    ELSE IF RegexMatch(date_str, date_patterns[k]) /\ Strptime(date_str, date_patterns[k]).ok
         THEN Strftime(Strptime(date_str, date_patterns[k]), target_format)
         ELSE NormalizeFrom(date_str, k + 1, target_format)

_normalize_date(date_str, target_format) == NormalizeFrom(date_str, 1, target_format)

----------------------------------------------------------------------------
(* Inputs of the model                                                     *)

Alice == <<"A", "l", "i", "c", "e">>
Bob == <<"B", "o", "b">>
N30 == <<"3", "0">>
N25 == <<"2", "5">>

\* rows an ingested file can hold, for the runs of the whole cleaner:
\* plain, padded and lower-case text, blank cells, a date, a short and a
\* long row
RowPool ==
    { <<Alice, N30>>,
      << <<" ", "b", "o", "b">>, <<>> >>,
      << <<>>, <<" ">>, <<>> >>,
      << <<"1", "/", "2", "/", "2", "0", "2", "4">> >> }

\* rows for the runs of the row-removing operations: equal rows, rows that
\* agree on Name only, a short row whose missing cell reads as '', a row
\* that is half blank and one that is all blank
RowPoolRows ==
    { <<Alice, N30>>,
      <<Bob, N25>>,
      <<Alice>>,
      <<Alice, <<>> >>,
      << <<>>, <<" ">> >> }

\* the header names handed to the constructor
Headers == <<"Name", "Age">>

Tables == UNION { [1..n -> RowPool] : n \in 0..MaxRows }

TablesRows == UNION { [1..n -> RowPoolRows] : n \in 0..MaxRows }

\* an Optional[List[str]] argument: None, or a list of column names
NoneArg == [isNone |-> TRUE, names |-> <<>>]

Cols(names) == [isNone |-> FALSE, names |-> names]

SubsetArgs == { NoneArg, Cols(<<"Name", "Zip">>), Cols(<<"Zip">>) }

KeepArgs == { "first", "last", "none" }

\* thresholds as exact fractions <<numerator, denominator>>: 0.0, 0.5, 1.0
ThresholdArgs == { <<0, 1>>, <<1, 2>>, <<1, 1>> }

----------------------------------------------------------------------------
(* State                                                                   *)

VARIABLES
    heap,           \* row objects: heap[id] is the list of cells of row id
    input,          \* the cells of the caller's rows as they were at construction
    rows,           \* self.rows: identities of the rows of the working set
    original_rows,  \* self.original_rows: identities kept by rows.copy()
    cleaning_log,   \* self.cleaning_log
    call,           \* the method call made last, with its arguments
    ret,            \* the value that call returned
    clock           \* number of calls made; read by datetime.now()

vars == <<heap, input, rows, original_rows, cleaning_log, call, ret, clock>>

\* the cells behind a list of row identities
Contents(ids) == [k \in DOMAIN ids |-> heap[ids[k]]]

\* the caller's list of rows: the list object given to the constructor
\* holds the row objects 1..n for ever (the class never mutates that list)
CallerRows == [k \in DOMAIN input |-> k]

\* DataCleaner.__init__(rows, headers) on the table t
Construct(t) ==
    /\ input = t
    /\ heap = input
    /\ rows = [k \in DOMAIN input |-> k]
    /\ original_rows = [k \in DOMAIN input |-> k]
    /\ cleaning_log = <<>>
    /\ call = [op |-> "__init__"]
    /\ ret = [none |-> TRUE]
    /\ clock = 0

Init == \E t \in Tables : Construct(t)

InitRows == \E t \in TablesRows : Construct(t)

\* log_operation with `if affected_rows:` around the append
log_operation_unlessNoRows(operation, details, affected_rows) ==
    cleaning_log' =
        IF affected_rows = <<>> THEN cleaning_log
        ELSE Append(cleaning_log,
                [operation |-> operation, details |-> details,
                 affected_rows |-> affected_rows, timestamp |-> clock'])

\* log_operation with `self.cleaning_log = [entry]` for the append
log_operation_replacing(operation, details, affected_rows) ==
    cleaning_log' =
        <<[operation |-> operation, details |-> details,
           affected_rows |-> affected_rows, timestamp |-> clock']>>

\* DataCleaner.log_operation
log_operation(operation, details, affected_rows) ==
    cleaning_log' = Append(cleaning_log,
        [operation |-> operation,
         details |-> details,
         affected_rows |-> affected_rows,
         timestamp |-> clock'])

\* DataCleaner._get_column_indices (column positions are 1-based here)
RECURSIVE KnownIndices(_)
KnownIndices(names) ==
    IF names = <<>> THEN <<>>
    ELSE (IF Head(names) \in Range(Headers)
          THEN <<IndexOf(Headers, Head(names))>> ELSE <<>>) \o KnownIndices(Tail(names))

_get_column_indices(columns) ==
    IF columns.isNone THEN [k \in 1..Len(Headers) |-> k]
    ELSE KnownIndices(columns.names)

\* f"...{columns or 'all'}": None and the empty list both print as 'all'
OrAll(columns) == IF columns.isNone \/ columns.names = <<>> THEN NoneArg ELSE columns

----------------------------------------------------------------------------
(* remove_duplicates                                                       *)

\* column_indices of remove_duplicates: the known names of subset_columns,
\* or all columns when the argument is empty or names no known column
DedupIndices(subset_columns) ==
    IF subset_columns.isNone \/ subset_columns.names = <<>>
    THEN [k \in 1..Len(Headers) |-> k]
    ELSE IF KnownIndices(subset_columns.names) = <<>>
         THEN [k \in 1..Len(Headers) |-> k]
         ELSE KnownIndices(subset_columns.names)

\* the key with `column_indices[:1]` for column_indices
KeyOf_firstColumn(row, column_indices) ==
    [k \in {1} |->
        IF column_indices[k] <= Len(row) THEN row[column_indices[k]] ELSE <<>>]

\* tuple(row[j] if j < len(row) else '' for j in column_indices)
KeyOf(row, column_indices) ==
    [k \in DOMAIN column_indices |->
        IF column_indices[k] <= Len(row) THEN row[column_indices[k]] ELSE <<>>]

\* the inner loop without its pop
PopFirstWithKey_noPop(cleaned_rows, key_values, column_indices) == cleaned_rows

\* the inner loop of keep == 'last': pop the first row of cleaned_rows that
\* has the key
PopFirstWithKey(cleaned_rows, key_values, column_indices) ==
    LET hits == { j \in DOMAIN cleaned_rows :
                     KeyOf(heap[cleaned_rows[j]], column_indices) = key_values }
    IN  IF hits = {} THEN cleaned_rows
        ELSE LET j == CHOOSE j \in hits : \A h \in hits : j <= h
             IN  SubSeq(cleaned_rows, 1, j - 1) \o SubSeq(cleaned_rows, j + 1, Len(cleaned_rows))

\* the iteration with `cleaned_rows.insert(0, row)` for the append of
\* keep == 'last'
DedupIteration_insertFirst(st, i, column_indices, keep) ==
    LET row == rows[i]
        key_values == KeyOf(heap[row], column_indices)
    IN  IF key_values \in st.seen
        THEN [seen |-> st.seen,
              duplicates_removed |-> st.duplicates_removed + 1,
              duplicate_rows |-> Append(st.duplicate_rows, i),
              cleaned_rows |->
                 IF keep = "last"
                 THEN <<row>> \o PopFirstWithKey(st.cleaned_rows, key_values, column_indices)
                 ELSE st.cleaned_rows]
        ELSE [seen |-> st.seen \cup {key_values},
              duplicates_removed |-> st.duplicates_removed,
              duplicate_rows |-> st.duplicate_rows,
              cleaned_rows |-> Append(st.cleaned_rows, row)]

\* the iteration without `seen.add(key_values)`
DedupIteration_noSeenAdd(st, i, column_indices, keep) ==
    [seen |-> st.seen,
     duplicates_removed |-> st.duplicates_removed,
     duplicate_rows |-> st.duplicate_rows,
     cleaned_rows |-> Append(st.cleaned_rows, rows[i])]

\* one iteration of `for i, row in enumerate(self.rows)`; i is 1-based here,
\* so the logged row number i + 1 of the source is i
DedupIteration(st, i, column_indices, keep) ==
    LET row == rows[i]
        key_values == KeyOf(heap[row], column_indices)
    IN  IF key_values \in st.seen
        THEN [seen |-> st.seen,
              duplicates_removed |-> st.duplicates_removed + 1,
              duplicate_rows |-> Append(st.duplicate_rows, i),
              cleaned_rows |->
                 IF keep = "last"
                 THEN Append(PopFirstWithKey(st.cleaned_rows, key_values, column_indices), row)
                 ELSE st.cleaned_rows]
        ELSE [seen |-> st.seen \cup {key_values},
              duplicates_removed |-> st.duplicates_removed,
              duplicate_rows |-> st.duplicate_rows,
              cleaned_rows |-> Append(st.cleaned_rows, row)]

RECURSIVE DedupLoop(_, _, _, _)
DedupLoop(st, i, column_indices, keep) ==
    IF i > Len(rows) THEN st
    ELSE DedupLoop(DedupIteration(st, i, column_indices, keep), i + 1, column_indices, keep)

remove_duplicates(subset_columns, keep) ==
    /\ clock < MaxCalls
    /\ clock' = clock + 1
    /\ call' = [op |-> "remove_duplicates", subset_columns |-> subset_columns, keep |-> keep]
    /\ IF rows = <<>>
       THEN /\ ret' = [rows |-> rows, count |-> 0]
            /\ UNCHANGED <<heap, input, rows, original_rows, cleaning_log>>
       ELSE LET st == DedupLoop([seen |-> {}, cleaned_rows |-> <<>>,
                                 duplicates_removed |-> 0, duplicate_rows |-> <<>>],
                                1, DedupIndices(subset_columns), keep)
            IN  /\ rows' = st.cleaned_rows
                /\ log_operation("Remove Duplicates",
                                 [removed |-> st.duplicates_removed,
                                  columns |-> OrAll(subset_columns)],
                                 st.duplicate_rows)
                /\ ret' = [rows |-> st.cleaned_rows, count |-> st.duplicates_removed]
                /\ UNCHANGED <<heap, input, original_rows>>

----------------------------------------------------------------------------
(* Operations that assign cells in place                                   *)

\* the cells (id, j) an in-place loop of the cleaner visits:
\* `for row in self.rows: for j in column_indices: if j < len(row)`
Visited(column_indices) ==
    { c \in Range(rows) \X Range(column_indices) : c[2] <= Len(heap[c[1]]) }

\* the heap after the assignment `row[j] = new[<<id, j>>]` at each cell in
\* the domain of new
AssignCells(new) ==
    [id \in DOMAIN heap |->
        [j \in DOMAIN heap[id] |->
            IF <<id, j>> \in DOMAIN new THEN new[<<id, j>>] ELSE heap[id][j]]]

normalize_whitespace(columns) ==
    /\ clock < MaxCalls
    /\ clock' = clock + 1
    /\ call' = [op |-> "normalize_whitespace", columns |-> columns]
    /\ IF rows = <<>>
       THEN /\ ret' = [count |-> 0]
            /\ UNCHANGED <<heap, input, rows, original_rows, cleaning_log>>
       ELSE LET normalized(id, j) == CollapseSpaces(Strip(heap[id][j]))
                modified == { c \in Visited(_get_column_indices(columns)) :
                                 heap[c[1]][c[2]] # normalized(c[1], c[2]) }
            IN  /\ heap' = AssignCells([c \in modified |-> normalized(c[1], c[2])])
                /\ log_operation("Normalize Whitespace",
                                 [modified |-> Cardinality(modified),
                                  columns |-> OrAll(columns)],
                                 <<>>)
                /\ ret' = [count |-> Cardinality(modified)]
                /\ UNCHANGED <<input, rows, original_rows>>

\* the new_value of standardize_case; an unknown case_type leaves the cell
CaseValue(original_value, case_type) ==
    IF case_type = "upper" THEN Upper(original_value)
    ELSE IF case_type = "lower" THEN Lower(original_value)
    ELSE IF case_type = "title" THEN Title(original_value)
    ELSE IF case_type = "sentence" THEN Sentence(original_value)
    ELSE original_value

standardize_case(case_type, columns) ==
    /\ clock < MaxCalls
    /\ clock' = clock + 1
    /\ call' = [op |-> "standardize_case", case_type |-> case_type, columns |-> columns]
    /\ IF rows = <<>>
       THEN /\ ret' = [count |-> 0]
            /\ UNCHANGED <<heap, input, rows, original_rows, cleaning_log>>
       ELSE LET new_value(id, j) == CaseValue(heap[id][j], case_type)
                modified == { c \in Visited(_get_column_indices(columns)) :
                                 /\ heap[c[1]][c[2]] # <<>>
                                 /\ heap[c[1]][c[2]] # new_value(c[1], c[2]) }
            IN  /\ heap' = AssignCells([c \in modified |-> new_value(c[1], c[2])])
                /\ log_operation("Standardize Case",
                                 [modified |-> Cardinality(modified),
                                  case_type |-> case_type,
                                  columns |-> OrAll(columns)],
                                 <<>>)
                /\ ret' = [count |-> Cardinality(modified)]
                /\ UNCHANGED <<input, rows, original_rows>>

\* the test with `empty_ratio > threshold`
EmptyEnough_strict(row, threshold) ==
    LET empty_cells == Cardinality({ j \in DOMAIN row : IsBlank(row[j]) })
        total_cells == Len(row)
    IN  IF total_cells > 0
        THEN empty_cells * threshold[2] > threshold[1] * total_cells
        ELSE threshold[2] > threshold[1]

\* `empty_ratio >= threshold` of remove_empty_rows, in exact fractions;
\* a row without cells has empty_ratio 1.0
EmptyEnough(row, threshold) ==
    LET empty_cells == Cardinality({ j \in DOMAIN row : IsBlank(row[j]) })
        total_cells == Len(row)
    IN  IF total_cells > 0
        THEN empty_cells * threshold[2] >= threshold[1] * total_cells
        ELSE threshold[2] >= threshold[1]

remove_empty_rows(threshold) ==
    /\ clock < MaxCalls
    /\ clock' = clock + 1
    /\ call' = [op |-> "remove_empty_rows", threshold |-> threshold]
    /\ IF rows = <<>>
       THEN /\ ret' = [rows |-> rows, count |-> 0]
            /\ UNCHANGED <<heap, input, rows, original_rows, cleaning_log>>
       ELSE LET positions == [i \in 1..Len(rows) |-> i]
                gone(i) == EmptyEnough(heap[rows[i]], threshold)
                kept(i) == ~ gone(i)
                removed_rows == SelectSeq(positions, gone)
                keptPositions == SelectSeq(positions, kept)
                cleaned_rows == [k \in DOMAIN keptPositions |-> rows[keptPositions[k]]]
                rows_removed == Len(rows) - Len(cleaned_rows)
            IN  /\ rows' = cleaned_rows
                /\ log_operation("Remove Empty Rows",
                                 [removed |-> rows_removed, threshold |-> threshold],
                                 removed_rows)
                /\ ret' = [rows |-> cleaned_rows, count |-> rows_removed]
                /\ UNCHANGED <<heap, input, original_rows>>

\* column_values of fill_missing_values: the non-blank cells of column j,
\* in row order
ColumnValues(j) ==
    LET has(id) == j <= Len(heap[id]) /\ ~ IsBlank(heap[id][j])
        ids == SelectSeq(rows, has)
    IN  [k \in DOMAIN ids |-> heap[ids[k]][j]]

\* Counter(column_values).most_common(1)[0][0]: the most frequent value,
\* the one met first among equally frequent ones
MostCommon(column_values) ==
    LET count(v) == Cardinality({ k \in DOMAIN column_values : column_values[k] = v })
        best == CHOOSE k \in DOMAIN column_values :
                    /\ \A h \in DOMAIN column_values :
                          count(column_values[h]) <= count(column_values[k])
                    /\ \A h \in 1..(k - 1) :
                          count(column_values[h]) < count(column_values[k])
    IN  column_values[best]

\* numeric_values = [float(v) for v in column_values if self._is_numeric(v)]
NumericValues(column_values) ==
    LET numeric == SelectSeq(column_values, _is_numeric)
    IN  [k \in DOMAIN numeric |-> Float(numeric[k])]

\* the float whose text a mean/median fill writes into column j
FillNumber(j, strategy) ==
    IF strategy = "mean" THEN MeanOf(NumericValues(ColumnValues(j)))
    ELSE MedianOf(NumericValues(ColumnValues(j)))

\* fill_value of fill_missing_values for a column with non-blank cells
FillValue(j, strategy, value) ==
    IF strategy = "mode" THEN MostCommon(ColumnValues(j))
    ELSE IF strategy \in {"mean", "median"}
         THEN IF NumericValues(ColumnValues(j)) # <<>>
              THEN FloatStr(FillNumber(j, strategy)) ELSE <<>>
    ELSE IF strategy = "custom" THEN value
    ELSE <<>>

\* FillTargets with `if j < len(row) and not row[j]`: only the empty cells
FillTargets_onlyEmpty(column_indices) ==
    { c \in Visited(column_indices) :
         /\ c[2] <= Len(Headers)
         /\ ColumnValues(c[2]) # <<>>
         /\ heap[c[1]][c[2]] = <<>> }

\* the cells fill_missing_values assigns: the blank cells of the targeted
\* columns that have at least one non-blank cell
FillTargets(column_indices) ==
    { c \in Visited(column_indices) :
         /\ c[2] <= Len(Headers)
         /\ ColumnValues(c[2]) # <<>>
         /\ IsBlank(heap[c[1]][c[2]]) }

fill_missing_values(strategy, value, columns) ==
    /\ clock < MaxCalls
    /\ clock' = clock + 1
    /\ call' = [op |-> "fill_missing_values", strategy |-> strategy,
                value |-> value, columns |-> columns]
    /\ IF rows = <<>>
       THEN /\ ret' = [count |-> 0]
            /\ UNCHANGED <<heap, input, rows, original_rows, cleaning_log>>
       ELSE LET targets == FillTargets(_get_column_indices(columns))
                fill_value(id, j) == FillValue(j, strategy, value)
            IN  \* str() of a float is modelled for finite decimal expansions
                /\ strategy \in {"mean", "median"} =>
                      \A c \in targets :
                         NumericValues(ColumnValues(c[2])) # <<>> =>
                            ExactDecimal(FillNumber(c[2], strategy))
                /\ heap' = AssignCells([c \in targets |-> fill_value(c[1], c[2])])
                /\ log_operation("Fill Missing Values",
                                 [filled |-> Cardinality(targets), strategy |-> strategy],
                                 <<>>)
                /\ ret' = [count |-> Cardinality(targets)]
                /\ UNCHANGED <<input, rows, original_rows>>

normalize_dates(date_columns, format) ==
    /\ clock < MaxCalls
    /\ clock' = clock + 1
    /\ call' = [op |-> "normalize_dates", date_columns |-> date_columns, format |-> format]
    /\ IF rows = <<>>
       THEN /\ ret' = [count |-> 0]
            /\ UNCHANGED <<heap, input, rows, original_rows, cleaning_log>>
       ELSE LET normalized_value(id, j) == _normalize_date(heap[id][j], format)
                modified == { c \in Visited(KnownIndices(date_columns)) :
                                 /\ heap[c[1]][c[2]] # <<>>
                                 /\ heap[c[1]][c[2]] # normalized_value(c[1], c[2]) }
            IN  /\ heap' = AssignCells([c \in modified |-> normalized_value(c[1], c[2])])
                /\ log_operation("Normalize Dates",
                                 [modified |-> Cardinality(modified), format |-> format],
                                 <<>>)
                /\ ret' = [count |-> Cardinality(modified)]
                /\ UNCHANGED <<input, rows, original_rows>>

\* DataCleaner.reset_to_original
reset_to_original ==
    /\ clock < MaxCalls
    /\ clock' = clock + 1
    /\ call' = [op |-> "reset_to_original"]
    /\ rows' = original_rows
    /\ cleaning_log' = <<>>
    /\ ret' = [none |-> TRUE]
    /\ UNCHANGED <<heap, input, original_rows>>

\* DataCleaner.get_cleaning_summary: the dictionary it returns in the
\* current state (the method changes nothing)
get_cleaning_summary ==
    [total_operations |-> Len(cleaning_log),
     operations |-> cleaning_log,
     final_row_count |-> Len(rows),
     original_row_count |-> Len(original_rows)]

----------------------------------------------------------------------------
(* Specification                                                           *)

\* the whole cleaner, each operation with the arguments the command line
\* passes (all columns) in one or two of its modes
Next ==
    \/ \E keep \in KeepArgs : remove_duplicates(NoneArg, keep)
    \/ normalize_whitespace(NoneArg)
    \/ standardize_case("title", NoneArg)
    \/ remove_empty_rows(<<1, 1>>)
    \/ \E strategy \in {"mean", "custom"} : fill_missing_values(strategy, <<"0">>, NoneArg)
    \/ normalize_dates(<<"Name">>, "auto")
    \/ reset_to_original

Spec == Init /\ [][Next]_vars

\* the row-removing operations with every argument
NextRows ==
    \/ \E subset_columns \in SubsetArgs, keep \in KeepArgs :
          remove_duplicates(subset_columns, keep)
    \/ \E threshold \in ThresholdArgs : remove_empty_rows(threshold)

SpecRows == InitRows /\ [][NextRows]_vars


\* the modes of standardize_case, the strategies of fill_missing_values and
\* the target formats of normalize_dates
CaseArgs == { "upper", "lower", "title", "sentence" }

StrategyArgs == { "empty", "mode", "mean", "median", "custom" }

FormatArgs == { "auto", "ISO", "US", "EU" }

\* the call is the first one made, or repeats the call made before it
FirstOrSameCall == clock = 0 \/ call' = call

\* a cell-rewriting operation called on the constructed cleaner, and the
\* same call made again right after it
NextTwice ==
    \/ normalize_whitespace(NoneArg) /\ FirstOrSameCall
    \/ \E case_type \in CaseArgs :
          standardize_case(case_type, NoneArg) /\ FirstOrSameCall
    \/ \E strategy \in StrategyArgs :
          fill_missing_values(strategy, <<"0">>, NoneArg) /\ FirstOrSameCall
    \/ \E format \in FormatArgs :
          normalize_dates(<<"Name">>, format) /\ FirstOrSameCall

SpecTwice == Init /\ [][NextTwice]_vars


MaxFillRows == 4

\* rows of a table with gaps to fill: the column Age of the first four rows
\* reads 10, (empty), 20, 30; a row with a whitespace-only name and an age
\* that is no number; a row too short to have an Age cell
FillPool ==
    { <<Alice, <<"1", "0">> >>,
      <<Bob, <<>> >>,
      << <<>>, <<"2", "0">> >>,
      <<Alice, N30>>,
      << <<" ">>, <<"x">> >>,
      <<Bob>> }

InitFill ==
    \E t \in UNION { [1..n -> FillPool] : n \in 0..MaxFillRows } : Construct(t)

\* one call of fill_missing_values on the constructed cleaner, with each
\* strategy, on all columns or on Age
NextFill ==
    \E strategy \in StrategyArgs, columns \in { NoneArg, Cols(<<"Age">>) } :
        clock = 0 /\ fill_missing_values(strategy, <<"0">>, columns)

SpecFill == InitFill /\ [][NextFill]_vars

----------------------------------------------------------------------------
(* DataAnalyzer (src/csvtools/statistics.py): the data quality report      *)
(* DataAnalyzer.__init__ keeps the caller's list as self.rows, the state   *)
(* Construct(t) builds; its methods read the table and leave it unchanged. *)

\* rows an analysed table can hold: the rows of the example table, a row
\* equal to one of them up to padding, rows shorter than the header, and
\* rows longer than the header, with and without text
QualityPool ==
    { <<Alice, N30>>,
      <<Bob, N25>>,
      << <<" ">> \o Alice, N30 \o <<" ">> >>,
      <<Alice>>,
      <<Alice, <<>> >>,
      << <<>>, <<" ">>, <<>> >>,
      <<Bob, N25, <<>> >> }

TablesQuality == UNION { [1..n -> QualityPool] : n \in 0..MaxRows }

InitQuality == \E t \in TablesQuality : Construct(t)

\* row_tuple with `cell` for `cell.strip() if cell else ''`
RowTuple_untrimmed(row) == row

\* row_tuple = tuple(cell.strip() if cell else '' for cell in row)
RowTuple(row) == [j \in DOMAIN row |-> IF row[j] # <<>> THEN Strip(row[j]) ELSE <<>>]

\* the loop over self.rows with seen_rows, from row i on
RECURSIVE CountDuplicates(_, _, _)
CountDuplicates(i, seen_rows, duplicate_rows) ==
    IF i > Len(rows) THEN duplicate_rows
    ELSE LET row_tuple == RowTuple(heap[rows[i]])
         IN  CountDuplicates(i + 1, seen_rows \cup {row_tuple},
                             IF row_tuple \in seen_rows
                             THEN duplicate_rows + 1 ELSE duplicate_rows)

\* a score `(total - part) / total if total > 0 else 0`, as an exact fraction
Score(total, part) == IF total > 0 THEN Reduce(<<total - part, total>>) ELSE <<0, 1>>

\* the dictionary get_data_quality_report returns
QualityReport ==
    LET total_rows == Len(rows)
        total_cells == IF total_rows > 0 THEN total_rows * Len(Headers) ELSE 0
        \* sum(1 for cell in row if not cell or not cell.strip()), every row
        empty_cells ==
            Cardinality({ c \in (DOMAIN rows) \X (UNION { DOMAIN heap[id] : id \in Range(rows) }) :
                             /\ c[2] <= Len(heap[rows[c[1]]])
                             /\ IsBlank(heap[rows[c[1]]][c[2]]) })
        \* the rows with len(row) != len(self.headers)
        inconsistent_lengths ==
            Cardinality({ i \in DOMAIN rows : Len(heap[rows[i]]) # Len(Headers) })
        duplicate_rows == CountDuplicates(1, {}, 0)
        completeness_score == Score(total_cells, empty_cells)
        consistency_score == Score(total_rows, inconsistent_lengths)
        uniqueness_score == Score(total_rows, duplicate_rows)
    IN  [overall_quality_score |->
             QDivInt(QAdd(QAdd(completeness_score, consistency_score),
                          uniqueness_score), 3),
         completeness_score |-> completeness_score,
         consistency_score |-> consistency_score,
         uniqueness_score |-> uniqueness_score,
         total_rows |-> total_rows,
         total_columns |-> Len(Headers),
         total_cells |-> total_cells,
         empty_cells |-> empty_cells,
         duplicate_rows |-> duplicate_rows,
         inconsistent_lengths |-> inconsistent_lengths]

\* DataAnalyzer.get_data_quality_report
get_data_quality_report ==
    /\ clock < MaxCalls
    /\ clock' = clock + 1
    /\ call' = [op |-> "get_data_quality_report"]
    /\ ret' = QualityReport
    /\ UNCHANGED <<heap, input, rows, original_rows, cleaning_log>>

\* the analyzer asked for its report, over every table of the pool
NextQuality == get_data_quality_report

SpecQuality == InitQuality /\ [][NextQuality]_vars

\* a cleaner and an analyzer over the same table: remove_duplicates over
\* all columns with keep='first', then the report on the working set left
NextAgree ==
    \/ clock = 0 /\ remove_duplicates(NoneArg, "first")
    \/ clock = 1 /\ get_data_quality_report

SpecAgree == InitQuality /\ [][NextAgree]_vars

----------------------------------------------------------------------------
(* DataAnalyzer.get_outliers                                               *)

MaxValues == 5

QSub(a, b) == QAdd(a, <<-b[1], b[2]>>)

QMul(a, b) == Reduce(<<a[1] * b[1], a[2] * b[2]>>)

\* rows of a table with a numeric column Age: five numbers, a cell of
\* whitespace that float() rejects, and a row too short to have the cell
OutlierPool ==
    { <<Alice, <<"1">> >>, <<Alice, <<"2">> >>, <<Alice, <<"3">> >>,
      <<Alice, <<"4">> >>, <<Alice, <<"1", "0", "0">> >>,
      <<Alice, <<" ">> >>, <<Alice>> }

InitOutliers ==
    \E t \in UNION { [1..n -> OutlierPool] : n \in 0..MaxValues } : Construct(t)

\* DataAnalyzer._looks_like_date: re.match of \d{1,2}/\d{1,2}/\d{2,4},
\* \d{4}-\d{1,2}-\d{1,2} or \d{1,2}-\d{1,2}-\d{2,4} at the start of the value
_looks_like_date(value) ==
    \/ RegexMatchFrom(value, 1, <<"m", "d", "y">>, "/")
    \/ RegexMatchFrom(value, 1, <<"Y", "m", "d">>, "-")
    \/ RegexMatchFrom(value, 1, <<"m", "d", "y">>, "-")

\* _infer_data_type with `numeric_ratio > 0.5`
_infer_data_type_half(j) ==
    LET column_values ==
            [i \in DOMAIN rows |->
                IF j <= Len(heap[rows[i]]) THEN heap[rows[i]][j] ELSE <<>>]
        non_empty == { i \in DOMAIN rows : ~ IsBlank(column_values[i]) }
        numeric_count == Cardinality({ i \in non_empty : _is_numeric(column_values[i]) })
    IN  IF rows = <<>> \/ non_empty = {} THEN "unknown"
        ELSE IF 2 * numeric_count > Cardinality(non_empty) THEN "numeric"
        ELSE "categorical"

\* DataAnalyzer._infer_data_type on column j (1-based) of self.rows;
\* 0.8 and 0.5 are the ratios 4/5 and 1/2
_infer_data_type(j) ==
    LET \* [row[column_index] if column_index < len(row) else '' ...]
        column_values ==
            [i \in DOMAIN rows |->
                IF j <= Len(heap[rows[i]]) THEN heap[rows[i]][j] ELSE <<>>]
        non_empty == { i \in DOMAIN rows : ~ IsBlank(column_values[i]) }
        numeric_count == Cardinality({ i \in non_empty : _is_numeric(column_values[i]) })
        date_count == Cardinality({ i \in non_empty : _looks_like_date(column_values[i]) })
    IN  IF rows = <<>> \/ non_empty = {} THEN "unknown"
        ELSE IF 5 * numeric_count > 4 * Cardinality(non_empty) THEN "numeric"
        ELSE IF 2 * date_count > Cardinality(non_empty) THEN "date"
        ELSE "categorical"

\* _percentile returning values[int(index)] for every index
_percentile_lower(values, percentile) ==
    IF values = <<>> THEN <<0, 1>>
    ELSE values[(percentile * (Len(values) - 1)) \div 100 + 1]

\* DataAnalyzer._percentile on a list already sorted by values.sort():
\* index = (percentile / 100) * (len(values) - 1), linear interpolation
_percentile(values, percentile) ==
    LET scaled == percentile * (Len(values) - 1)
        int_index == scaled \div 100
        lower == values[int_index + 1]
        upper == values[int_index + 2]
    IN  IF values = <<>> THEN <<0, 1>>
        ELSE IF scaled % 100 = 0 THEN lower
        ELSE QAdd(lower, QMul(QSub(upper, lower), Reduce(<<scaled % 100, 100>>)))

\* the list the iqr loop enumerates: numeric_values after the
\* values.sort() of _percentile, which sorts the caller's list in place
IqrValues(numeric_values) == QSort(numeric_values)

\* DataAnalyzer.get_outliers; the result is a list of <<row, value>>.
\* Each local of the method is bound once, in the order the code assigns it.
get_outliers(column_name, method, threshold) ==
    /\ clock < MaxCalls
    /\ clock' = clock + 1
    /\ call' = [op |-> "get_outliers", column_name |-> column_name,
                method |-> method, threshold |-> threshold]
    /\ UNCHANGED <<heap, input, rows, original_rows, cleaning_log>>
    /\ IF \/ column_name \notin Range(Headers)
          \/ _infer_data_type(IndexOf(Headers, column_name)) # "numeric"
       THEN ret' = [outliers |-> <<>>]
       ELSE
       \E column_index \in { IndexOf(Headers, column_name) } :
       \E row_indices \in
            { SelectSeq([i \in DOMAIN rows |-> i],
                        LAMBDA i : /\ column_index <= Len(heap[rows[i]])
                                   /\ heap[rows[i]][column_index] # <<>>
                                   /\ _is_numeric(heap[rows[i]][column_index])) } :
       \E numeric_values \in
            { [k \in DOMAIN row_indices |->
                  Float(heap[rows[row_indices[k]]][column_index])] } :
          IF Len(numeric_values) < 4
          THEN ret' = [outliers |-> <<>>]
          ELSE IF method = "iqr"
          THEN \* _percentile sorts numeric_values; the loop enumerates it
               \E sorted \in { QSort(numeric_values) } :
               \E q1 \in { _percentile(sorted, 25) } :
               \E q3 \in { _percentile(sorted, 75) } :
               \E iqr \in { QSub(q3, q1) } :
               \E lower_bound \in { QSub(q1, QMul(threshold, iqr)) } :
               \E upper_bound \in { QAdd(q3, QMul(threshold, iqr)) } :
               \E values \in { IqrValues(numeric_values) } :
               \E hits \in
                    { SelectSeq([k \in DOMAIN values |-> k],
                                LAMBDA k : \/ ~ QLeq(lower_bound, values[k])
                                           \/ ~ QLeq(values[k], upper_bound)) } :
                  ret' = [outliers |->
                            [h \in DOMAIN hits |-> <<row_indices[hits[h]], values[hits[h]]>>]]
          ELSE IF method = "zscore"
          THEN \* abs((value - mean) / stdev) > threshold, compared as
               \* (value - mean)^2 > threshold^2 * variance, variance over n - 1
               \E mean_val \in { MeanOf(numeric_values) } :
               \E squares \in
                    { [k \in DOMAIN numeric_values |->
                          QMul(QSub(numeric_values[k], mean_val),
                               QSub(numeric_values[k], mean_val))] } :
               \E variance \in { QDivInt(QSum(squares), Len(numeric_values) - 1) } :
               \E limit \in { QMul(QMul(threshold, threshold), variance) } :
               \E hits \in
                    { SelectSeq([k \in DOMAIN numeric_values |-> k],
                                LAMBDA k : variance[1] > 0 /\ ~ QLeq(squares[k], limit)) } :
                  ret' = [outliers |->
                            [h \in DOMAIN hits |->
                                <<row_indices[hits[h]], numeric_values[hits[h]]>>]]
          ELSE ret' = [outliers |-> <<>>]

\* the analyzer asked for the outliers of Age by either method, threshold 1.5
NextOutliers == \E method \in {"iqr", "zscore"} : get_outliers("Age", method, <<3, 2>>)

SpecOutliers == InitOutliers /\ [][NextOutliers]_vars

----------------------------------------------------------------------------
(* DataAnalyzer.get_column_statistics                                      *)

MaxStatRows == 5

\* the header line of the file, as a row of cells
HeaderRow == << <<"N", "a", "m", "e">>, <<"A", "g", "e">> >>

\* rows of a table profiled on its column Age: three numbers, the header
\* line handed in as a row, a date, and a row too short to have the cell
StatPool ==
    { <<Alice, <<"1">> >>, <<Alice, <<"2">> >>, <<Alice, <<"4">> >>,
      HeaderRow,
      <<Alice, <<"1", "/", "2", "/", "2", "4">> >>,
      <<Alice>> }

InitStatistics ==
    \E t \in UNION { [1..n -> StatPool] : n \in 0..MaxStatRows } : Construct(t)

\* DataAnalyzer._get_numeric_statistics on column j: the floats of the
\* non-blank cells, sorted. (std_dev, the square root of variance, is not
\* part of the record.)
_get_numeric_statistics(j) ==
    LET numeric_values == QSort(NumericValues(ColumnValues(j)))
        n == Len(numeric_values)
        mean == MeanOf(numeric_values)
        squares == [k \in 1..n |-> QMul(QSub(numeric_values[k], mean),
                                         QSub(numeric_values[k], mean))]
    IN  IF n = 0
        THEN [min |-> "None", max |-> "None", mean |-> "None", median |-> "None",
              variance |-> "None", q1 |-> "None", q3 |-> "None"]
        ELSE [min |-> numeric_values[1],
              max |-> numeric_values[n],
              mean |-> mean,
              median |-> MedianOf(numeric_values),
              variance |-> IF n > 1 THEN QDivInt(QSum(squares), n - 1) ELSE <<0, 1>>,
              q1 |-> _percentile(numeric_values, 25),
              q3 |-> _percentile(numeric_values, 75),
              range |-> QSub(numeric_values[n], numeric_values[1])]

\* DataAnalyzer._get_categorical_statistics on column j: (value, count) of
\* the first most frequent and of the first least frequent non-blank value.
\* (entropy, a logarithm, is not part of the record.)
_get_categorical_statistics(j) ==
    LET non_empty_values == ColumnValues(j)
        count(v) == Cardinality({ k \in DOMAIN non_empty_values : non_empty_values[k] = v })
        least == CHOOSE k \in DOMAIN non_empty_values :
                    /\ \A h \in DOMAIN non_empty_values :
                          count(non_empty_values[k]) <= count(non_empty_values[h])
                    /\ \A h \in 1..(k - 1) :
                          count(non_empty_values[k]) < count(non_empty_values[h])
    IN  IF non_empty_values = <<>>
        THEN [most_common_value |-> "None", least_common_value |-> "None"]
        ELSE [most_common_value |->
                  <<MostCommon(non_empty_values), count(MostCommon(non_empty_values))>>,
              least_common_value |->
                  <<non_empty_values[least], count(non_empty_values[least])>>]

\* DataAnalyzer.get_column_statistics
get_column_statistics(column_name) ==
    /\ clock < MaxCalls
    /\ clock' = clock + 1
    /\ call' = [op |-> "get_column_statistics", column_name |-> column_name]
    /\ UNCHANGED <<heap, input, rows, original_rows, cleaning_log>>
    /\ IF column_name \notin Range(Headers)
       THEN ret' = [error |-> column_name]
       ELSE
       \E column_index \in { IndexOf(Headers, column_name) } :
       \E data_type \in { _infer_data_type(column_index) } :
       \E non_empty \in { ColumnValues(column_index) } :
       \E stats \in
            { [column_name |-> column_name,
               data_type |-> data_type,
               total_values |-> Len(rows),
               non_empty_values |-> Len(non_empty),
               empty_values |-> Len(rows) - Len(non_empty),
               unique_values |-> Cardinality(Range(non_empty)),
               \* _calculate_missing_percentage
               missing_percentage |->
                   IF rows = <<>> THEN <<100, 1>>
                   ELSE Reduce(<<100 * (Len(rows) - Len(non_empty)), Len(rows)>>)] } :
          ret' = IF data_type = "numeric"
                 THEN _get_numeric_statistics(column_index) @@ stats
                 ELSE IF data_type = "date"
                 THEN [date_format_detected |-> TRUE,
                       unique_dates |-> Cardinality(Range(non_empty))] @@ stats
                 ELSE IF data_type = "categorical"
                 THEN _get_categorical_statistics(column_index) @@ stats
                 ELSE stats

\* the analyzer, once constructed, asked for the statistics of Age, of Name
\* or of a column that is not in the header (the method changes no state)
NextStatistics ==
    \E column_name \in { "Age", "Name", "Zip" } :
        clock = 0 /\ get_column_statistics(column_name)

SpecStatistics == InitStatistics /\ [][NextStatistics]_vars

\* the analyzer, once constructed on a profiled table, asked for the
\* outliers of Age or of a column that is not in the header, threshold 1.5
NextOutliersAny ==
    \E column_name \in { "Age", "Zip" }, method \in { "iqr", "zscore" } :
        clock = 0 /\ get_outliers(column_name, method, <<3, 2>>)

SpecOutliersAny == InitStatistics /\ [][NextOutliersAny]_vars

----------------------------------------------------------------------------
(* Delimiter detection (src/csvtools/delimiter.py)                         *)
(* detect_delimiter is a function of the sample line, the override and the *)
(* configured delimiters: the specification draws them at the start, in    *)
(* `input`, and its one action applies the function.                       *)

MaxLineLen == 4

\* sample lines: tabs, spaces, commas, a configured delimiter and text
SampleRows == UNION { [1..n -> {"\t", " ", ",", ";", "a"}] : n \in 0..MaxLineLen }

\* the -dl override: absent, empty, or a delimiter
CustomDelimiters ==
    { [isNone |-> TRUE, text |-> <<>>],
      [isNone |-> FALSE, text |-> <<>>],
      [isNone |-> FALSE, text |-> <<";">>] }

\* CONFIG["additional_delimiters"]: the default, one delimiter, two of which
\* the first contains the second
AdditionalDelimiters == { <<>>, << <<";">> >>, << <<"a", ";">>, <<";">> >> }

InitDelimiter ==
    /\ input \in [sample_row : SampleRows,
                  custom_delimiter : CustomDelimiters,
                  additional_delimiters : AdditionalDelimiters]
    /\ heap = <<>>
    /\ rows = <<>>
    /\ original_rows = <<>>
    /\ cleaning_log = <<>>
    /\ call = [op |-> "load_config"]
    /\ ret = [none |-> TRUE]
    /\ clock = 0

\* `delim in sample_row`, and re.search of a run of two
Contains(s, sub) ==
    \E i \in 0..(Len(s) - Len(sub)) : SubSeq(s, i + 1, i + Len(sub)) = sub

\* the text of the ValueError, word by word
UnsupportedMessage ==
    <<"Supported", "delimiters", "are", "multiple", "tabs,", "multiple",
      "spaces,", "or", "comma.", "Use", "-dl", "flag", "for", "custom",
      "delimiter.">>

Returned(value) == [ok |-> TRUE, value |-> value]

Raised(exception, message) == [ok |-> FALSE, raised |-> exception, message |-> message]

\* the loop over the configured delimiters, taking the last one present
ConfiguredMatch_last(additional_delimiters, sample_row) ==
    LET present == SelectSeq(additional_delimiters, LAMBDA delim : Contains(sample_row, delim))
    IN  IF present = <<>> THEN <<>> ELSE << present[Len(present)] >>

\* `for delim in CONFIG["additional_delimiters"]: if delim in sample_row:
\* return delim`: the delimiter returned, if any, as a list of 0 or 1
ConfiguredMatch(additional_delimiters, sample_row) ==
    LET present == SelectSeq(additional_delimiters, LAMBDA delim : Contains(sample_row, delim))
    IN  IF present = <<>> THEN <<>> ELSE << present[1] >>

\* the if/elif chain with `return ','` in place of the raise
Fallback_commaDefault(sample_row) ==
    IF Contains(sample_row, <<"\t", "\t">>) THEN Returned(<<"\\", "t", "+">>)
    ELSE IF Contains(sample_row, <<" ", " ">>) THEN Returned(<<" ", "+">>)
    ELSE Returned(<<",">>)

\* the if/elif chain of detect_delimiter: r'\t+', r' +', ',' or ValueError
Fallback(sample_row) ==
    IF Contains(sample_row, <<"\t", "\t">>) THEN Returned(<<"\\", "t", "+">>)
    ELSE IF Contains(sample_row, <<" ", " ">>) THEN Returned(<<" ", "+">>)
    ELSE IF Contains(sample_row, <<",">>) THEN Returned(<<",">>)
    ELSE Raised("ValueError", UnsupportedMessage)

\* detect_delimiter(sample_row, custom_delimiter)
detect_delimiter ==
    /\ clock = 0
    /\ clock' = clock + 1
    /\ call' = [op |-> "detect_delimiter"]
    /\ ret' =
          LET custom_delimiter == input.custom_delimiter
              configured == ConfiguredMatch(input.additional_delimiters, input.sample_row)
          IN  \* `if custom_delimiter:` is false for None and for ''
              IF ~ custom_delimiter.isNone /\ custom_delimiter.text # <<>>
              THEN Returned(custom_delimiter.text)
              ELSE IF configured # <<>> THEN Returned(configured[1])
              ELSE Fallback(input.sample_row)
    /\ UNCHANGED <<heap, input, rows, original_rows, cleaning_log>>

NextDelimiter == detect_delimiter

SpecDelimiter == InitDelimiter /\ [][NextDelimiter]_vars

----------------------------------------------------------------------------
(* Type inference (src/csvtools/types.py)                                  *)
(* detect_type and determine_majority_type are functions of their          *)
(* arguments: the specification draws the arguments at the start, in       *)
(* `input`, and its actions apply the functions.                           *)

MaxTextLen == 4

MaxCells == 10

\* cell texts: every text over a sign, a digit, the point and the exponent
\* letter, and texts of the other kinds float() and lower() tell apart
TypeTexts ==
    UNION { [1..n -> {"-", "5", ".", "e"}] : n \in 0..MaxTextLen }
    \cup { <<"t", "r", "u", "e">>, <<"T", "r", "u", "e">>, <<"F", "A", "L", "S", "E">>,
           <<"t", "r", "u">>, <<"t", "r", "u", "e", "5">>,
           <<"i", "n", "f">>, <<"-", "I", "n", "f", "i", "n", "i", "t", "y">>,
           <<"n", "a", "n">>, <<"i", "n">>,
           <<"1", "_", "0">>, <<"_", "1">>, <<"1", "_", "_", "0">>, <<"5", "E", "+", "5">>,
           <<" ", "5">>, <<"+", "5">>, <<"5", " ", "5">>, <<"a", "b", "c">> }

\* the hint: None or a type name
TypeHints == { "None", "bool", "int", "float", "str" }

\* the per-cell types of a column
TypeLists == UNION { [1..n -> {"int", "float", "str"}] : n \in 0..MaxCells }

InitTypes ==
    /\ input \in [value : TypeTexts, expected_type : TypeHints] \cup [types : TypeLists]
    /\ heap = <<>>
    /\ rows = <<>>
    /\ original_rows = <<>>
    /\ cleaning_log = <<>>
    /\ call = [op |-> "load_config"]
    /\ ret = [none |-> TRUE]
    /\ clock = 0

\* digits with single underscores between them, as float() groups them
DigitGroup(t) ==
    /\ t # <<>>
    /\ IsDigit(t[1]) /\ IsDigit(t[Len(t)])
    /\ \A i \in DOMAIN t : IsDigit(t[i]) \/ t[i] = "_"
    /\ \A i \in 1..(Len(t) - 1) : ~ (t[i] = "_" /\ t[i + 1] = "_")

\* float(value) does not raise ValueError: surrounding whitespace, a sign,
\* then inf, infinity or nan in any case, or digits with at most one point
\* and an optional exponent
FloatParses(value) ==
    LET s == Strip(value)
        body == IF s # <<>> /\ s[1] \in {"+", "-"} THEN Tail(s) ELSE s
        es == { i \in DOMAIN body : body[i] \in {"e", "E"} }
        epos == IF es = {} THEN Len(body) + 1
                ELSE CHOOSE i \in es : \A k \in es : i <= k
        mantissa == SubSeq(body, 1, epos - 1)
        exponent == SubSeq(body, epos + 1, Len(body))
        digits == IF exponent # <<>> /\ exponent[1] \in {"+", "-"}
                  THEN Tail(exponent) ELSE exponent
        dots == { i \in DOMAIN mantissa : mantissa[i] = "." }
        dot == IF dots = {} THEN Len(mantissa) + 1 ELSE CHOOSE i \in dots : TRUE
        int_part == SubSeq(mantissa, 1, dot - 1)
        frac_part == SubSeq(mantissa, dot + 1, Len(mantissa))
    IN  \/ Lower(body) \in { <<"i", "n", "f">>, <<"n", "a", "n">>,
                             <<"i", "n", "f", "i", "n", "i", "t", "y">> }
        \/ /\ Cardinality(dots) <= 1
           /\ int_part = <<>> \/ DigitGroup(int_part)
           /\ frac_part = <<>> \/ DigitGroup(frac_part)
           /\ int_part # <<>> \/ frac_part # <<>>
           /\ es = {} \/ DigitGroup(digits)

\* detect_type with the hint applied to every text that parses
detect_type_hintFirst(value, expected_type) ==
    IF Lower(value) \in { <<"t", "r", "u", "e">>, <<"f", "a", "l", "s", "e">> } THEN "bool"
    ELSE IF value # <<>> /\ AllDigits(value) THEN "int"
    ELSE IF FloatParses(value)
         THEN IF expected_type = "int" THEN "int" ELSE "float"
    ELSE "str"

\* detect_type(value, expected_type)
detect_type(value, expected_type) ==
    IF Lower(value) \in { <<"t", "r", "u", "e">>, <<"f", "a", "l", "s", "e">> } THEN "bool"
    ELSE IF value # <<>> /\ AllDigits(value) THEN "int"
    ELSE IF FloatParses(value)
         THEN IF expected_type = "int" /\ "." \notin Range(value) THEN "int" ELSE "float"
    ELSE "str"

\* determine_majority_type with `count / len(types) > threshold`
determine_majority_type_strict(types) ==
    IF types = <<>> THEN Raised("IndexError", <<"list", "index", "out", "of", "range">>)
    ELSE LET most_common_type == MostCommon(types)
             count == Cardinality({ k \in DOMAIN types : types[k] = most_common_type })
         IN  IF 10 * count > 7 * Len(types)
             THEN Returned(most_common_type) ELSE Returned("None")

\* determine_majority_type(types), threshold = 0.7: most_common(1)[0] of an
\* empty Counter raises IndexError; count / len(types) >= 0.7 holds of the
\* doubles exactly when 10 * count >= 7 * len(types)
determine_majority_type(types) ==
    IF types = <<>> THEN Raised("IndexError", <<"list", "index", "out", "of", "range">>)
    ELSE LET most_common_type == MostCommon(types)
             count == Cardinality({ k \in DOMAIN types : types[k] = most_common_type })
         IN  IF 10 * count >= 7 * Len(types)
             THEN Returned(most_common_type) ELSE Returned("None")

\* a call of detect_type on the drawn text and hint
CallDetectType ==
    /\ clock = 0
    /\ "value" \in DOMAIN input
    /\ clock' = clock + 1
    /\ call' = [op |-> "detect_type"]
    /\ ret' = Returned(detect_type(input.value, input.expected_type))
    /\ UNCHANGED <<heap, input, rows, original_rows, cleaning_log>>

\* a call of determine_majority_type on the drawn list of types
CallDetermineMajorityType ==
    /\ clock = 0
    /\ "types" \in DOMAIN input
    /\ clock' = clock + 1
    /\ call' = [op |-> "determine_majority_type"]
    /\ ret' = determine_majority_type(input.types)
    /\ UNCHANGED <<heap, input, rows, original_rows, cleaning_log>>

NextTypes == CallDetectType \/ CallDetermineMajorityType

SpecTypes == InitTypes /\ [][NextTypes]_vars

----------------------------------------------------------------------------
(* DataAnalyzer.get_correlation_matrix                                     *)

\* rows of a table with numbers in both columns: pairs that rise and fall
\* together or against each other, a row without its second cell, a
\* whitespace-only cell and a text
CorrelationPool ==
    { << <<"1">>, <<"2">> >>, << <<"2">>, <<"1">> >>,
      << <<"2">>, <<"4">> >>, << <<"4">>, <<"2">> >>,
      << <<"1">> >>,
      << <<"2">>, <<" ">> >>,
      << Alice, <<"1">> >> }

InitCorrelation ==
    \E t \in UNION { [1..n -> CorrelationPool] : n \in 0..MaxRows } : Construct(t)

\* the argument numeric_columns: None, both columns in either order, one
\* column, and a column that is not in the header
CorrelationArgs ==
    { NoneArg, Cols(<<"Name", "Age">>), Cols(<<"Age", "Name">>),
      Cols(<<"Age">>), Cols(<<"Age", "Zip">>) }

\* A coefficient numerator / sqrt(denominator_x * denominator_y) is held as
\* the sign of the numerator and the exact square of the quotient.
Coefficient(numerator, product) ==
    [sign |-> IF numerator[1] > 0 THEN 1 ELSE IF numerator[1] < 0 THEN -1 ELSE 0,
     square |-> Reduce(<<numerator[1] * numerator[1] * product[2],
                         numerator[2] * numerator[2] * product[1]>>)]

\* the floats 0.0 and 1.0 as coefficients
Zero == [sign |-> 0, square |-> <<0, 1>>]

One == [sign |-> 1, square |-> <<1, 1>>]

\* DataAnalyzer._calculate_correlation
_calculate_correlation(x, y) ==
    IF Len(x) # Len(y) \/ Len(x) < 2 THEN Zero
    ELSE LET mean_x == MeanOf(x)
             mean_y == MeanOf(y)
             numerator ==
                 QSum([k \in DOMAIN x |-> QMul(QSub(x[k], mean_x), QSub(y[k], mean_y))])
             denominator_x ==
                 QSum([k \in DOMAIN x |-> QMul(QSub(x[k], mean_x), QSub(x[k], mean_x))])
             denominator_y ==
                 QSum([k \in DOMAIN y |-> QMul(QSub(y[k], mean_y), QSub(y[k], mean_y))])
         IN  IF denominator_x[1] = 0 \/ denominator_y[1] = 0 THEN Zero
             ELSE Coefficient(numerator, QMul(denominator_x, denominator_y))

\* numeric_data[col]: the floats of the non-empty cells of the column that
\* float() accepts, in row order
NumericData(col) ==
    LET col_index == IndexOf(Headers, col)
        ids == SelectSeq(rows, LAMBDA id : /\ col_index <= Len(heap[id])
                                            /\ heap[id][col_index] # <<>>
                                            /\ _is_numeric(heap[id][col_index]))
    IN  [k \in DOMAIN ids |-> Float(heap[ids[k]][col_index])]

\* the entry without the test `col1 == col2`
CorrelationEntry_computed(col1, col2) ==
    _calculate_correlation(NumericData(col1), NumericData(col2))

\* correlation_matrix[col1][col2]
CorrelationEntry(col1, col2) ==
    IF col1 = col2 THEN One
    ELSE _calculate_correlation(NumericData(col1), NumericData(col2))

\* DataAnalyzer.get_correlation_matrix; self.headers.index(col) raises
\* ValueError for a column that is not in the header
get_correlation_matrix(numeric_columns) ==
    /\ clock < MaxCalls
    /\ clock' = clock + 1
    /\ call' = [op |-> "get_correlation_matrix", numeric_columns |-> numeric_columns]
    /\ UNCHANGED <<heap, input, rows, original_rows, cleaning_log>>
    /\ \E columns \in
            { IF numeric_columns.isNone \/ numeric_columns.names = <<>>
              THEN SelectSeq(Headers,
                             LAMBDA header :
                                 _infer_data_type(IndexOf(Headers, header)) = "numeric")
              ELSE numeric_columns.names } :
          ret' = IF Len(columns) < 2 THEN Returned(<<>>)
                 ELSE IF \E k \in DOMAIN columns : columns[k] \notin Range(Headers)
                 THEN Raised("ValueError", <<"is", "not", "in", "list">>)
                 ELSE Returned([col1 \in Range(columns) |->
                                  [col2 \in Range(columns) |-> CorrelationEntry(col1, col2)]])

\* the analyzer, once constructed, asked for a correlation matrix
NextCorrelation ==
    \E numeric_columns \in CorrelationArgs :
        clock = 0 /\ get_correlation_matrix(numeric_columns)

SpecCorrelation == InitCorrelation /\ [][NextCorrelation]_vars

----------------------------------------------------------------------------
(* Vocabulary of the properties                                            *)

CleaningOps ==
    { "remove_duplicates", "normalize_whitespace", "standardize_case",
      "remove_empty_rows", "fill_missing_values", "normalize_dates" }

\* the step is a call of a cleaning operation
CleaningCall == clock' = clock + 1 /\ call'.op \in CleaningOps

\* the step is a call of remove_duplicates with this keep mode
DedupCall(keep) ==
    /\ clock' = clock + 1
    /\ call'.op = "remove_duplicates"
    /\ call'.keep = keep

IsPrefix(s, t) == Len(s) <= Len(t) /\ SubSeq(t, 1, Len(s)) = s

\* the value of column j in a row, a missing cell read as the empty string
CellAt(id, j) == IF j <= Len(heap[id]) THEN heap[id][j] ELSE <<>>

\* two rows have the same key over the columns idx
SameKey(a, b, idx) == \A k \in DOMAIN idx : CellAt(a, idx[k]) = CellAt(b, idx[k])

\* positions of the working set whose key occurs at no earlier position
EarliestPositions(idx) ==
    { i \in DOMAIN rows : \A k \in 1..(i - 1) : ~ SameKey(rows[k], rows[i], idx) }

\* positions of the working set whose key occurs at no later position
LatestPositions(idx) ==
    { i \in DOMAIN rows : \A k \in (i + 1)..Len(rows) : ~ SameKey(rows[k], rows[i], idx) }

\* positions of the working set whose key occurs at no other position
UniquePositions(idx) ==
    { i \in DOMAIN rows : \A k \in DOMAIN rows : k # i => ~ SameKey(rows[k], rows[i], idx) }

\* the rows of the working set at the positions P, in their order
RowsAt(P) ==
    LET in(i) == i \in P
        pos == SelectSeq([i \in 1..Len(rows) |-> i], in)
    IN  [k \in 1..Len(pos) |-> rows[pos[k]]]

\* every cell of the row is empty or whitespace-only
AllBlank(row) == \A j \in DOMAIN row : row[j] = <<>> \/ \A k \in DOMAIN row[j] : row[j][k] \in {" ", "\t"}

ExampleTable == << <<Alice, N30>>, <<Bob, N25>>, <<Alice, N30>> >>

----------------------------------------------------------------------------
(* Properties                                                              *)

\* C1: after any sequence of cleaning operations followed by
\* reset_to_original, the working set equals, cell for cell, the rows the
\* cleaner was constructed with, and the operation log is empty.
C1_ResetRestoresConstruction ==
    call.op = "reset_to_original" =>
        Contents(rows) = input /\ cleaning_log = <<>>

\* C2: in every reachable state original_rows holds, cell for cell, the
\* contents the rows had at construction.
C2_OriginalSnapshotImmutable == Contents(original_rows) = input

\* C3: the working set starts equal to the input rows and is an independent
\* copy: no operation changes a cell or a row of the caller's table.
C3_CallerTableNotAliased ==
    /\ call.op = "__init__" => Contents(rows) = input
    /\ Len(CallerRows) = Len(input)
    /\ \A k \in DOMAIN input : heap[CallerRows[k]] = input[k]

\* C4 as claimed: every call of a cleaning operation, on every working set
\* including the empty one, appends exactly one entry to the log.
C4_EveryCallLogsOnce ==
    [][CleaningCall => Len(cleaning_log') = Len(cleaning_log) + 1]_vars

\* C4 as amended: a call of a cleaning operation on a non-empty working set
\* appends exactly one entry, naming that operation, to the log; a call on
\* an empty working set leaves the log as it is.
C4_CallOnRowsLogsOnce ==
    [][CleaningCall =>
          IF rows # <<>>
          THEN /\ Len(cleaning_log') = Len(cleaning_log) + 1
               /\ IsPrefix(cleaning_log, cleaning_log')
               /\ cleaning_log'[Len(cleaning_log')].timestamp = clock'
          ELSE cleaning_log' = cleaning_log]_vars

\* two calls on a non-empty working set have left two entries
C4_Witness ==
    /\ call.op \in CleaningOps
    /\ clock = 2
    /\ Len(cleaning_log) = 2
    /\ cleaning_log[1].timestamp = 1
    /\ cleaning_log[2].timestamp = 2

\* C5: the log is append-only: every step other than reset_to_original
\* leaves the previous log as a prefix of the new one.
C5_LogAppendOnly ==
    [][(clock' = clock + 1 /\ call'.op = "reset_to_original")
          \/ IsPrefix(cleaning_log, cleaning_log')]_vars

\* an operation has appended to a log that already held an entry
C5_Witness ==
    /\ Len(cleaning_log) >= 2
    /\ cleaning_log[1].operation # cleaning_log[2].operation

\* C6: keep='none' leaves exactly the rows whose key is unique in the
\* working set before the call (the first occurrence of a repeated key is
\* dropped too).
C6_KeepNoneDropsEveryRepeated ==
    [][DedupCall("none") =>
          rows' = RowsAt(UniquePositions(DedupIndices(call'.subset_columns)))]_vars

\* C7: keep='first' keeps, for each key, exactly the earliest row with that
\* key; the returned count is rows before minus rows after; on the rows
\* (Alice,30),(Bob,25),(Alice,30) it removes 1 row, the second Alice row.
C7_KeepFirstKeepsEarliest ==
    [][DedupCall("first") =>
          /\ rows' = RowsAt(EarliestPositions(DedupIndices(call'.subset_columns)))
          /\ ret'.rows = rows'
          /\ ret'.count = Len(rows) - Len(rows')
          /\ heap' = heap
          /\ (Contents(rows) = ExampleTable /\ call'.subset_columns = NoneArg) =>
                ret'.count = 1 /\ rows' = <<rows[1], rows[2]>>]_vars

\* keep='first' has run on (Alice,30),(Bob,25),(Alice,30)
C7_Witness ==
    /\ call.op = "remove_duplicates" /\ call.keep = "first"
    /\ clock = 1
    /\ input = ExampleTable
    /\ ret.count = 1
    /\ rows = <<1, 2>>

\* C8: keep='last' keeps, for each key, exactly the latest row with that
\* key (also for a key that occurs three times), and the returned count is
\* rows before minus rows after.
C8_KeepLastKeepsLatest ==
    [][DedupCall("last") =>
          /\ rows' = RowsAt(LatestPositions(DedupIndices(call'.subset_columns)))
          /\ ret'.rows = rows'
          /\ ret'.count = Len(rows) - Len(rows')
          /\ heap' = heap]_vars

\* keep='last' has run on three rows with one key and kept the third
C8_Witness ==
    /\ call.op = "remove_duplicates" /\ call.keep = "last"
    /\ clock = 1
    /\ Len(input) = 3
    /\ ret.count = 2
    /\ rows = <<3>>

\* C9: on a working set in which no two rows share a key, keep='first' and
\* then keep='last' each return 0 and leave the working set unchanged.
C9_DedupOfDeduplicated ==
    [][/\ (/\ DedupCall("first")
           /\ UniquePositions(DedupIndices(call'.subset_columns)) = DOMAIN rows)
          => (ret'.count = 0 /\ rows' = rows /\ heap' = heap)
       /\ (/\ call.op = "remove_duplicates" /\ call.keep = "first" /\ ret.count = 0
           /\ DedupCall("last")
           /\ call'.subset_columns = call.subset_columns
           /\ UniquePositions(DedupIndices(call'.subset_columns)) = DOMAIN rows)
          => (ret'.count = 0 /\ rows' = rows /\ heap' = heap)]_vars

\* two calls of remove_duplicates, the second with keep='last', on a
\* working set of three rows with three keys: both removed nothing
C9_Witness ==
    /\ call.op = "remove_duplicates" /\ call.keep = "last"
    /\ clock = 2
    /\ Len(cleaning_log) = 2
    /\ cleaning_log[1].operation = "Remove Duplicates"
    /\ cleaning_log[1].details.removed = 0
    /\ ret.count = 0
    /\ rows = <<1, 2, 3>>

\* C10: remove_empty_rows(1.0) removes exactly the rows in which every cell
\* is empty or whitespace-only, and a second call right after it removes
\* no row.
C10_RemoveAllBlankRows ==
    [][(/\ clock' = clock + 1
        /\ call'.op = "remove_empty_rows"
        /\ call'.threshold = <<1, 1>>)
          => /\ LET keep(id) == ~ AllBlank(heap[id])
                IN  rows' = SelectSeq(rows, keep)
             /\ ret'.count = Len(rows) - Len(rows')
             /\ heap' = heap
             /\ (call.op = "remove_empty_rows" /\ call.threshold = <<1, 1>>)
                   => (ret'.count = 0 /\ rows' = rows)]_vars

\* remove_empty_rows(1.0) has removed a blank row and kept another row,
\* and its second call has removed nothing
C10_Witness ==
    /\ call.op = "remove_empty_rows" /\ call.threshold = <<1, 1>>
    /\ clock = 2
    /\ Len(cleaning_log) = 2
    /\ cleaning_log[1].operation = "Remove Empty Rows"
    /\ cleaning_log[1].details.threshold = <<1, 1>>
    /\ cleaning_log[1].details.removed >= 1
    /\ ret.count = 0
    /\ rows # <<>>


\* a fraction <<numerator, denominator>> lies in the closed interval [0,1]
InUnitInterval(q) == QLeq(<<0, 1>>, q) /\ QLeq(q, <<1, 1>>)

\* C11: for every table, also with rows shorter or longer than the header
\* and for the empty table, the completeness, consistency, uniqueness and
\* overall scores of the quality report each lie in [0,1].
C11_ScoresInUnitInterval ==
    call.op = "get_data_quality_report" =>
        /\ InUnitInterval(ret.completeness_score)
        /\ InUnitInterval(ret.consistency_score)
        /\ InUnitInterval(ret.uniqueness_score)
        /\ InUnitInterval(ret.overall_quality_score)

\* two rows agree cell for cell, over their whole length, once every cell
\* is trimmed
SameTrimmedRow(a, b) ==
    /\ Len(a) = Len(b)
    /\ \A j \in DOMAIN a : Strip(a[j]) = Strip(b[j])

\* the positions of the table whose trimmed row occurs at an earlier position
RepeatedPositions ==
    { i \in DOMAIN rows :
         \E k \in 1..(i - 1) : SameTrimmedRow(heap[rows[k]], heap[rows[i]]) }

C12_OutliersNameTheirRows ==
    call.op = "get_outliers" =>
        LET j == IndexOf(Headers, call.column_name)
            out == ret.outliers
        IN  /\ \A k \in DOMAIN out :
                  /\ out[k][1] \in DOMAIN rows
                  /\ j <= Len(heap[rows[out[k][1]]])
                  /\ _is_numeric(heap[rows[out[k][1]]][j])
                  /\ Float(heap[rows[out[k][1]]][j]) = out[k][2]
            /\ \A k \in DOMAIN out : \A h \in DOMAIN out :
                  k < h => out[k][1] < out[h][1]
            /\ ( /\ call.method = "iqr"
                 /\ call.threshold = <<3, 2>>
                 /\ Contents(rows) = << <<Alice, <<"1">> >>, <<Alice, <<"2">> >>,
                                        <<Alice, <<"3">> >>, <<Alice, <<"4">> >>,
                                        <<Alice, <<"1", "0", "0">> >> >> )
               => out = << <<5, <<100, 1>> >> >>

\* the step repeats the call made just before it, with the same arguments
SameCallAgain == clock' = clock + 1 /\ call' = call

\* C13: date normalization is idempotent for every target format (auto/ISO,
\* US, EU): a second normalize_dates with the same columns and format
\* leaves the cells as the first call produced them and reports 0 modified
\* cells.
C13_NormalizeDatesIdempotent ==
    [][ (SameCallAgain /\ call.op = "normalize_dates") =>
            (Contents(rows)' = Contents(rows) /\ ret'.count = 0) ]_vars

\* C14: normalize_whitespace, standardize_case (each mode) and
\* fill_missing_values (each strategy) return a non-negative count, and a
\* second call with the same arguments right afterwards leaves every cell
\* unchanged and returns 0.
C14_CellOperationsIdempotent ==
    [][ (clock' = clock + 1 /\ call'.op \in { "normalize_whitespace",
                                            "standardize_case",
                                            "fill_missing_values" }) =>
            /\ ret'.count >= 0
            /\ call' = call =>
                  (Contents(rows)' = Contents(rows) /\ ret'.count = 0) ]_vars

\* the columns a call of fill_missing_values targets
TargetedColumns(columns) ==
    { j \in DOMAIN Headers : columns.isNone \/ Headers[j] \in Range(columns.names) }

\* the positions of the working set that have a cell in column j, and
\* those whose cell is not blank, and those whose cell parses as a number
WithCell(j) == { i \in DOMAIN rows : j <= Len(heap[rows[i]]) }

NonBlank(j) == { i \in WithCell(j) : ~ AllBlank(<<heap[rows[i]][j]>>) }

Parseable(j) == { i \in NonBlank(j) : _is_numeric(heap[rows[i]][j]) }

NumberAt(i, j) == Float(heap[rows[i]][j])

\* the sum of the numbers of column j at the positions P
RECURSIVE SumAt(_, _)
SumAt(P, j) ==
    IF P = {} THEN <<0, 1>>
    ELSE LET i == CHOOSE i \in P : TRUE
         IN  QAdd(NumberAt(i, j), SumAt(P \ {i}, j))

\* the k-th smallest number of column j
KthNumber(j, k) ==
    LET x == CHOOSE i \in Parseable(j) :
                 /\ Cardinality({ h \in Parseable(j) :
                        ~ QLeq(NumberAt(i, j), NumberAt(h, j)) }) < k
                 /\ Cardinality({ h \in Parseable(j) :
                        QLeq(NumberAt(h, j), NumberAt(i, j)) }) >= k
    IN  NumberAt(x, j)

\* v is the text the strategy derives from the non-blank cells of column j
IsFillValue(v, j, strategy, value) ==
    LET n == Cardinality(Parseable(j))
        count(text) == Cardinality({ i \in NonBlank(j) : heap[rows[i]][j] = text })
    IN  /\ strategy = "custom" => v = value
        /\ strategy = "mode" =>
              /\ count(v) > 0
              /\ \A i \in NonBlank(j) : count(heap[rows[i]][j]) <= count(v)
        /\ (strategy = "mean" /\ n > 0) =>
              /\ _is_numeric(v)
              /\ QMul(Float(v), <<n, 1>>) = SumAt(Parseable(j), j)
        /\ (strategy = "median" /\ n > 0) =>
              /\ _is_numeric(v)
              /\ QMul(Float(v), <<2, 1>>) =
                    IF n % 2 = 1
                    THEN QMul(KthNumber(j, (n + 1) \div 2), <<2, 1>>)
                    ELSE QAdd(KthNumber(j, n \div 2), KthNumber(j, n \div 2 + 1))

\* C15: fill_missing_values computes, per targeted column, one fill value
\* from that column's non-blank cells (mean/median over the cells that
\* parse as numbers, mode = most frequent, custom = the given text), writes
\* it into every empty or whitespace-only cell of the column, leaves every
\* non-blank cell unchanged, skips a column without a non-blank cell, and
\* returns the number of cells filled; with 'mean' on 10, (empty), 20, 30
\* the empty cell becomes 20.0.
C15_FillPerColumn ==
    [][ (clock' = clock + 1 /\ call'.op = "fill_missing_values" /\ rows # <<>>) =>
        LET filled(j) == IF NonBlank(j) = {} THEN {} ELSE WithCell(j) \ NonBlank(j)
            targeted == TargetedColumns(call'.columns)
        IN  /\ rows' = rows
            /\ \A i \in DOMAIN rows : DOMAIN heap'[rows[i]] = DOMAIN heap[rows[i]]
            /\ \A i \in DOMAIN rows : \A j \in DOMAIN heap[rows[i]] :
                  (j \notin targeted \/ i \notin filled(j)) =>
                      heap'[rows[i]][j] = heap[rows[i]][j]
            /\ \A j \in targeted :
                  filled(j) # {} =>
                      \E i \in filled(j) :
                         /\ IsFillValue(heap'[rows[i]][j], j, call'.strategy, call'.value)
                         /\ \A h \in filled(j) : heap'[rows[h]][j] = heap'[rows[i]][j]
            /\ ret'.count = Cardinality({ c \in (DOMAIN rows) \X targeted : c[1] \in filled(c[2]) })
            /\ ( /\ call'.strategy = "mean"
                 /\ WithCell(2) = DOMAIN rows
                 /\ [i \in DOMAIN rows |-> CellAt(rows[i], 2)]
                       = << <<"1", "0">>, <<>>, <<"2", "0">>, <<"3", "0">> >> )
               => heap'[rows[2]][2] = <<"2", "0", ".", "0">> ]_vars

\* the example: mean on Age of a table whose Age column read 10, '', 20, 30
C15_Witness ==
    /\ call.op = "fill_missing_values"
    /\ call.strategy = "mean"
    /\ input = << <<Alice, <<"1", "0">> >>, <<Bob, <<>> >>,
                  << <<>>, <<"2", "0">> >>, <<Alice, N30>> >>
    /\ [i \in DOMAIN rows |-> CellAt(rows[i], 2)]
          = << <<"1", "0">>, <<"2", "0", ".", "0">>, <<"2", "0">>, <<"3", "0">> >>
    /\ ret.count >= 1

\* the sample line has two of the character c in a row
HasRun(c) ==
    \E i \in 1..(Len(input.sample_row) - 1) :
        input.sample_row[i] = c /\ input.sample_row[i + 1] = c

\* an override was given on the call (an empty override counts as none)
OverrideGiven == ~ input.custom_delimiter.isNone /\ input.custom_delimiter.text # <<>>

\* the configured delimiters that occur in the sample line, by position in
\* the configuration
ConfiguredPresent ==
    { k \in DOMAIN input.additional_delimiters :
         \E i \in 0..Len(input.sample_row) : \E n \in 0..Len(input.sample_row) :
            /\ i + n <= Len(input.sample_row)
            /\ SubSeq(input.sample_row, i + 1, i + n) = input.additional_delimiters[k] }

\* nothing of the resolution order matches the sample line
NothingMatches ==
    /\ ~ OverrideGiven
    /\ ConfiguredPresent = {}
    /\ ~ HasRun("\t")
    /\ ~ HasRun(" ")
    /\ "," \notin Range(input.sample_row)

\* C17: delimiter detection returns the delimiter chosen by first match in
\* the order: the override if given; the first configured delimiter that
\* occurs in the sample line; the repeating-tab pattern if the line has two
\* tabs in a row; the repeating-space pattern if it has two spaces in a
\* row; the comma if the line has a comma.  A line with two tabs in a row
\* gives the tab pattern also when it has runs of spaces or commas.
C17_DelimiterResolutionOrder ==
    (call.op = "detect_delimiter" /\ ~ NothingMatches) =>
        /\ ret.ok
        /\ ret.value =
              IF OverrideGiven THEN input.custom_delimiter.text
              ELSE IF ConfiguredPresent # {}
                   THEN input.additional_delimiters[
                            CHOOSE k \in ConfiguredPresent :
                                \A h \in ConfiguredPresent : k <= h]
              ELSE IF HasRun("\t") THEN <<"\\", "t", "+">>
              ELSE IF HasRun(" ") THEN <<" ", "+">>
              ELSE <<",">>

\* a line with a run of tabs, a run of spaces, no override and no
\* configured delimiter in it, resolved to the tab pattern
C17_Witness ==
    /\ call.op = "detect_delimiter"
    /\ ~ OverrideGiven
    /\ ConfiguredPresent = {}
    /\ HasRun("\t") /\ HasRun(" ")
    /\ ret.ok /\ ret.value = <<"\\", "t", "+">>

\* C18: with no override, no configured delimiter in the sample line, no
\* run of tabs, no run of spaces and no comma, detection fails with the
\* unsupported-delimiter error (ValueError in the code), returns no
\* delimiter, and the message names the fallback set (tabs, spaces, comma)
\* and the override flag.
C18_UnsupportedDelimiterError ==
    (call.op = "detect_delimiter" /\ NothingMatches) =>
        /\ ~ ret.ok
        /\ ret.raised = "ValueError"
        /\ {"tabs,", "spaces,", "comma.", "-dl"} \subseteq Range(ret.message)

\* a line of text and single blanks only, with a delimiter configured that
\* is not in it, has made detection fail
C18_Witness ==
    /\ call.op = "detect_delimiter"
    /\ NothingMatches
    /\ input.additional_delimiters # <<>>
    /\ " " \in Range(input.sample_row)
    /\ ~ ret.ok

\* the drawn text is 'true' or 'false' in any case; is made of decimal
\* digits only; has a decimal point
BoolText == Lower(input.value) \in { <<"t", "r", "u", "e">>, <<"f", "a", "l", "s", "e">> }

DigitsOnly == input.value # <<>> /\ \A i \in DOMAIN input.value : input.value[i] \in DigitSet

HasPoint == \E i \in DOMAIN input.value : input.value[i] = "."

\* C19: a text equal to 'true' or 'false' ignoring case is bool; else a text
\* of decimal digits only is int; else a text that parses as a float is int
\* when the hint is int and the text has no decimal point, otherwise float;
\* else str.  Two hints give different results only for a text that is not
\* digits only, parses as a number and has no decimal point (e.g. '-5').
C19_DetectType ==
    call.op = "detect_type" =>
        LET parses == FloatParses(input.value)
            asInt == input.expected_type = "int" /\ ~ HasPoint
        IN  /\ ret.value = "bool" <=> BoolText
            /\ ret.value = "int" <=>
                  (~ BoolText /\ (DigitsOnly \/ (parses /\ asInt)))
            /\ ret.value = "float" <=>
                  (~ BoolText /\ ~ DigitsOnly /\ parses /\ ~ asInt)
            /\ ret.value = "str" <=> (~ BoolText /\ ~ DigitsOnly /\ ~ parses)
            /\ \A h1 \in TypeHints : \A h2 \in TypeHints :
                  detect_type(input.value, h1) # detect_type(input.value, h2) =>
                      (~ DigitsOnly /\ parses /\ ~ HasPoint)

\* '-5' classified with the hint int
C19_Witness ==
    /\ call.op = "detect_type"
    /\ input.value = <<"-", "5">>
    /\ input.expected_type = "int"
    /\ ret.value = "int"

\* the number of cells of the drawn column that have the type t
CellsOfType(t) == Cardinality({ k \in DOMAIN input.types : input.types[k] = t })

\* C20: the majority type of a column is its most frequent per-cell type
\* exactly when that type's count is at least 70% of the number of cells
\* (7 * total <= 10 * count), and none otherwise: 7 of 10 cells of one type
\* give that type, 6 of 10 give none.
C20_MajorityThreshold ==
    (call.op = "determine_majority_type" /\ input.types # <<>>) =>
        LET total == Len(input.types)
            majority == { t \in Range(input.types) : 7 * total <= 10 * CellsOfType(t) }
        IN  /\ ret.ok
            /\ \A t \in majority : ret.value = t
            /\ majority = {} => ret.value = "None"
            /\ (total = 10 /\ CellsOfType("int") = 7) => ret.value = "int"
            /\ (total = 10 /\ \A t \in Range(input.types) : CellsOfType(t) <= 6)
                  => ret.value = "None"

\* a column of ten cells, seven of them int, resolved to int
C20_Witness ==
    /\ call.op = "determine_majority_type"
    /\ Len(input.types) = 10
    /\ CellsOfType("int") = 7
    /\ ret.ok /\ ret.value = "int"

\* C21: no core operation raises on empty input; in particular the majority
\* type of a column with zero data cells (a header-only table) is
\* no-majority, returned and not raised.
C21_EmptyColumnHasNoMajority ==
    (call.op = "determine_majority_type" /\ input.types = <<>>) =>
        ret.ok /\ ret.value = "None"

\* the statistics of the column Age were asked for
StatisticsOfAge == call.op = "get_column_statistics" /\ call.column_name = "Age"

\* the percentile p of the numbers of column j: with n numbers and
\* p * (n - 1) = 100 * k + f, the point f/100 of the way from the
\* (k+1)-th smallest number to the next one
Quartile(j, p) ==
    LET scaled == p * (Cardinality(Parseable(j)) - 1)
        k == scaled \div 100
        f == scaled % 100
    IN  IF f = 0 THEN KthNumber(j, k + 1)
        ELSE QDivInt(QAdd(QMul(<<100 - f, 1>>, KthNumber(j, k + 1)),
                          QMul(<<f, 1>>, KthNumber(j, k + 2))), 100)

\* C22: for a numeric column with at least 4 parseable values the
\* statistics satisfy min <= Q1 <= median <= Q3 <= max, and Q1 and Q3 are
\* the linear-interpolation percentiles at index p/100 * (n - 1) of the
\* sorted values.
C22_QuartilesOrdered ==
    (StatisticsOfAge /\ ret.data_type = "numeric" /\ Cardinality(Parseable(2)) >= 4) =>
        /\ QLeq(ret.min, ret.q1)
        /\ QLeq(ret.q1, ret.median)
        /\ QLeq(ret.median, ret.q3)
        /\ QLeq(ret.q3, ret.max)
        /\ ret.q1 = Quartile(2, 25)
        /\ ret.q3 = Quartile(2, 75)

\* a numeric column of four numbers out of order whose median and third
\* quartile fall between two of its values
C22_Witness ==
    /\ StatisticsOfAge
    /\ ret.data_type = "numeric"
    /\ [i \in DOMAIN rows |-> CellAt(rows[i], 2)] = << <<"4">>, <<"1">>, <<"2">>, <<"1">> >>
    /\ ret.q1 = <<1, 1>>
    /\ ret.median = <<3, 2>>
    /\ ret.q3 = <<5, 2>>

\* C25: when the rows given to the analyzer are the header line followed by
\* the data rows, the statistics of a column whose data cells are all
\* numeric text report data_type numeric, total_values = the number of data
\* rows and non_empty_values = the number of non-empty data cells.
C25_StatisticsCountDataRowsOnly ==
    ( /\ StatisticsOfAge
      /\ Len(input) >= 2
      /\ input[1] = HeaderRow
      /\ \A i \in 2..Len(input) : i \in Parseable(2) ) =>
        /\ ret.data_type = "numeric"
        /\ ret.total_values = Len(input) - 1
        /\ ret.non_empty_values = Cardinality(NonBlank(2) \ {1})

\* C26: a column is profiled as numeric when at least 0.8 of its non-empty
\* values parse as floating point (exactly 0.8 included), otherwise as date
\* when at least 0.5 of them match a date pattern (exactly 0.5 included),
\* otherwise as categorical.
C26_ProfilerThresholds ==
    (StatisticsOfAge /\ NonBlank(2) # {}) =>
        LET total == Cardinality(NonBlank(2))
            numeric == Cardinality(Parseable(2))
            dates == Cardinality({ i \in NonBlank(2) : _looks_like_date(heap[rows[i]][2]) })
        IN  ret.data_type =
                IF 5 * numeric >= 4 * total THEN "numeric"
                ELSE IF 2 * dates >= total THEN "date"
                ELSE "categorical"

\* the numbers of the column named a all are the same number
ConstantColumn(a) ==
    \A h, i \in Parseable(IndexOf(Headers, a)) :
        NumberAt(h, IndexOf(Headers, a)) = NumberAt(i, IndexOf(Headers, a))

\* C23: the correlation matrix is symmetric with unit diagonal: corr[a][b]
\* equals corr[b][a] and corr[a][a] is 1.0 for all selected columns, and
\* both entries of a pair are 0.0 when the two columns have different
\* numbers of parseable values or one of them has a zero variance term.
C23_CorrelationSymmetric ==
    (call.op = "get_correlation_matrix" /\ ret.ok) =>
        \A a, b \in DOMAIN ret.value :
            /\ ret.value[a][b] = ret.value[b][a]
            /\ ret.value[a][a] = One
            /\ ( /\ a # b
                 /\ \/ Cardinality(Parseable(IndexOf(Headers, a)))
                          # Cardinality(Parseable(IndexOf(Headers, b)))
                    \/ ConstantColumn(a)
                    \/ ConstantColumn(b) )
               => ret.value[a][b] = Zero /\ ret.value[b][a] = Zero

\* a matrix of a column without variance and a column with it: ones on
\* the diagonal, 0.0 off it
C23_Witness ==
    /\ call.op = "get_correlation_matrix"
    /\ ret.ok
    /\ DOMAIN ret.value = { "Name", "Age" }
    /\ ConstantColumn("Name")
    /\ ~ ConstantColumn("Age")
    /\ Cardinality(Parseable(1)) = Cardinality(Parseable(2))
    /\ ret.value["Name"]["Name"] = One
    /\ ret.value["Name"]["Age"] = Zero

\* the outliers of the column Age were asked for
OutliersOfAge == call.op = "get_outliers" /\ call.column_name = "Age"

\* C24: get_outliers returns an empty result, and no error, when the column
\* is not in the header, is not numeric-typed or has fewer than 4
\* parseable values; with zscore it reports no outlier when the standard
\* deviation of the values is zero.
C24_OutliersEmptyNotError ==
    (call.op = "get_outliers") =>
        /\ DOMAIN ret = { "outliers" }
        /\ call.column_name \notin Range(Headers) => ret.outliers = <<>>
        /\ (OutliersOfAge /\ 5 * Cardinality(Parseable(2)) <= 4 * Cardinality(NonBlank(2)))
              => ret.outliers = <<>>
        /\ (OutliersOfAge /\ Cardinality(Parseable(2)) < 4) => ret.outliers = <<>>
        /\ (OutliersOfAge /\ call.method = "zscore" /\ ConstantColumn("Age"))
              => ret.outliers = <<>>

\* four numbers, one of them far off, beside a text: the column is not
\* numeric-typed and the result is empty
C24_Witness ==
    /\ OutliersOfAge
    /\ call.method = "iqr"
    /\ [i \in DOMAIN rows |-> CellAt(rows[i], 2)]
          = << <<"1">>, <<"1">>, <<"4">>, <<"A", "g", "e">>, <<"1">> >>
    /\ ret.outliers = <<>>

\* the step is a call of remove_duplicates or remove_empty_rows
RemovingCall ==
    clock' = clock + 1 /\ call'.op \in { "remove_duplicates", "remove_empty_rows" }

\* the positions of the working set before the step whose row is not in
\* the working set after it
RemovedPositions == { i \in DOMAIN rows : rows[i] \notin Range(rows') }

\* C27: the log entry appended by remove_duplicates (each keep mode) and by
\* remove_empty_rows lists as affected rows exactly the 1-based positions,
\* in the working set as it stood before the operation, of the rows the
\* operation removed.
C27_LogNamesRemovedRows ==
    [][ (RemovingCall /\ rows # <<>>) =>
          LET affected_rows == cleaning_log'[Len(cleaning_log')].affected_rows
          IN  /\ Len(cleaning_log') = Len(cleaning_log) + 1
              /\ Range(affected_rows) = RemovedPositions
              /\ Len(affected_rows) = Cardinality(RemovedPositions) ]_vars

\* the cells of the table under the header that are empty or
\* whitespace-only, a cell missing from a short row read as empty
EmptyUnderHeader ==
    { c \in (DOMAIN rows) \X (DOMAIN Headers) : IsBlank(CellAt(rows[c[1]], c[2])) }

\* C28: in the quality report a cell missing from a row shorter than the
\* header counts as an empty cell and cells beyond the header length are
\* ignored, so empty_cells never exceeds total_cells = rows x header length
\* and completeness = 1 - empty_cells / total_cells.
C28_RaggedRowsInReport ==
    (call.op = "get_data_quality_report") =>
        /\ ret.total_cells = Len(rows) * Len(Headers)
        /\ ret.empty_cells = Cardinality(EmptyUnderHeader)
        /\ ret.empty_cells <= ret.total_cells
        /\ ret.total_cells > 0 =>
              ret.completeness_score =
                  QSub(<<1, 1>>, Reduce(<<ret.empty_cells, ret.total_cells>>))

\* the list after is the list before with some of its rows deleted: its
\* rows are rows of the list before, in the order they had there
IsSubsequence(after, before) ==
    /\ Range(after) \subseteq Range(before)
    /\ \A k, l \in DOMAIN after :
          k < l => IndexOf(before, after[k]) < IndexOf(before, after[l])

\* C29: remove_duplicates (every keep mode) and remove_empty_rows (every
\* threshold) only delete rows: the working set after the call is an
\* order-preserving subsequence of the working set before it and the cells
\* of every kept row are unchanged; no cleaning operation makes the row
\* count grow, and the cleaning summary has
\* final_row_count <= original_row_count.
C29_RowsOnlyDeleted ==
    [][ /\ RemovingCall =>
              /\ IsSubsequence(rows', rows)
              /\ \A k \in DOMAIN rows' : heap'[rows'[k]] = heap[rows'[k]]
        /\ CleaningCall => Len(rows') <= Len(rows)
        /\ get_cleaning_summary'.final_row_count
              <= get_cleaning_summary'.original_row_count ]_vars

\* keep='last' on three rows took out the first and left the other two in
\* their order
C29_Witness ==
    /\ call.op = "remove_duplicates"
    /\ call.keep = "last"
    /\ Len(input) = 3
    /\ rows = <<2, 3>>
    /\ get_cleaning_summary.final_row_count = 2
    /\ get_cleaning_summary.original_row_count = 3

\* C30: for every table, after remove_duplicates over all columns with
\* keep='first' the quality report computed on the resulting working set
\* counts 0 duplicate rows and has uniqueness 1, also when cells differ
\* only by surrounding whitespace or rows differ in length.
C30_ReportAfterDedupHasNoDuplicates ==
    (call.op = "get_data_quality_report" /\ clock = 2 /\ rows # <<>>) =>
        /\ ret.duplicate_rows = 0
        /\ ret.uniqueness_score = <<1, 1>>
====
